---- MODULE Spec2Model ----
(***************************************************************************)
(* A model of the QQ bot of src/unnamed/part_002 (lines 569-1298): the     *)
(* PluginManager (archive staging, load, watch/debounce, dispatch,         *)
(* cleanup) and the QQBot gateway session (init, socket handlers, timers,  *)
(* reset, shutdown).  One action per handler or per resumption of an       *)
(* async function after an await; the synchronous code between two awaits  *)
(* is one atomic step, as it is on the Node.js event loop.                 *)
(***************************************************************************)
EXTENDS Integers, Sequences, FiniteSets, TLC

VARIABLES
    \* ---- file system below pluginDir, and the millisecond clock
    pluginDirExists,    \* fs.existsSync(this.pluginDir)
    dirs,               \* directory name -> what the directory holds
    zips,               \* the *.zip files lying in pluginDir
    now,                \* last value Date.now() returned
    \* ---- PluginManager
    plugins,            \* this.plugins: Map in insertion order, <<[type, plugin]>>
    defaultPlugin,      \* this.defaultPlugin
    isLoading,          \* this.isLoading
    watcher,            \* this.watcher # null
    reloadDebounce,     \* this.reloadDebounce: 0 (null) or a timer handle
    debounceTimers,     \* handle -> ms left of the setTimeout of line 820, -1 = not pending
    loadPc,             \* where the running loadPlugins is suspended
    loadCaller,         \* who awaits the running loadPlugins
    cleanupQueue,       \* cleanup() of loadPlugins: hooks still to be called, head is awaited
    scanQueue,          \* pluginDirs still to be visited by the loop of line 738
    awaitInit,          \* the plugin whose init() is awaited (line 778)
    \* ---- one processMessage call (dispatch)
    call,               \* the dispatch in flight or the last one finished
    \* ---- QQBot
    heartbeat_interval, session_id, seq, restoreLink, accessToken,
    isConnecting, isShuttingDown,
    shutPc,             \* where shutdown() is suspended, or the process has exited
    shutIter,           \* cleanup() of shutdown: where its iteration over this.plugins
                        \* and this.defaultPlugin is suspended
    heartbeatTimer, tokenRefreshTimer, connectionResetTimer,
    heartbeatLoops,     \* setInterval loops of sendHeartbeat that no clearInterval ended
    ws,                 \* this.ws: "null", or the readyState of the socket
    initPc,             \* where the running init() is suspended
    reconnectTimers,    \* delay -> pending setTimeout of safeResetConnection (line 1107)
    strayResetTimers,   \* pending timers of line 1148 that connectionResetTimer no longer holds
    refreshInFlight,    \* anewGetAccessToken calls of the refresh timer awaiting getAccessToken
    pendingSends,       \* reply requests in flight, their promises held by nobody
    \* ---- history of the calls made, for the properties
    staged,             \* per archive of the last extractPlugins scan: what it did
    registered,         \* plugins the load running or last run registered, in order
    initCalled,         \* plugins whose init() was invoked by the load running or last run
    reloadCalls,        \* reloadPlugins() calls made by the debounce timer
    bursts,             \* relevant notifications that found no debounce timer pending
    burstSize,          \* notifications of the last burst: a first one and those that
                        \* found its timer pending (counted up to MaxBurst)
    sinceNotify,        \* ms since the last relevant notification (capped)
    unnotified,         \* archives dropped and directories removed under the watcher
                        \* that fs.watch has not reported yet
    openFrame,          \* the frame the last handleOpen sent
    hbFrame,            \* the last heartbeat frame sent
    lastReadySid,       \* session_id of the last READY received
    lastS,              \* the last sequence number received
    maxS,               \* the largest sequence number received
    wsReady,            \* READY was received on the socket this.ws
    cleanClosed,        \* a ready socket closed and no socket has opened since
    generation,         \* the registry as the last finished load left it
    teardown,           \* the cleanup() running or last run: who called it, the plugins
                        \* loaded then, the plugins whose hook it has invoked
    signalled,          \* SIGINT or SIGTERM was delivered
    refused,            \* load: a loadPlugins call returned at line 709; init: an
                        \* init call returned at line 959 during the running attempt
    started             \* bot.init() of line 1295 was called

----------------------------------------------------------------------------
\* Bounds of the model
MaxStamp == 2           \* Date.now() takes the values 1..MaxStamp
MaxTimers == 2          \* timer handles the watcher may hold pending at once
MaxReloads == 2         \* reloadPlugins calls counted
MaxBurst == 2           \* notifications counted per burst

\* Program constants
DebounceDelay == 1000   \* setTimeout(..., 1000) of the watcher

----------------------------------------------------------------------------
\* The plugin packages a directory or archive may hold.  "none": no such
\* directory; "empty": a directory without manifest.json.
Pkgs == {"chatA", "chatB", "fallback", "nomain"}

Names == {"a", "b"}

\* A directory name: <<n, 0>> is n itself, <<n, t>> is the backup `${n}_${t}`
\* (MaxStamp + 1 stands for every later time, see Stamps).
DirNames == Names \X (0 .. MaxStamp + 1)

ZipNames == {"up.zip", "up2.zip", "two.zip", "dir.zip"}

Content == Pkgs \cup {"none", "empty"}

\* directories that cannot be loaded: "badjson" holds a manifest.json that require
\* cannot read, "nomodule" a manifest whose mainExport names no module
Broken == {"badjson", "nomodule"}

\* manifest.json exists in the directory (line 741)
HasManifest(c) == c \in Pkgs \cup Broken

\* lines 748-757: require(manifestPath) or require.resolve(pluginPath) throws, caught
\* at line 783
RequireThrows(c) == c \in Broken

\* manifest.processingTypes (line 768)
ProcessingTypes(p) ==
    CASE p = "chatA" -> <<"chat">>
      [] p = "chatB" -> <<"chat", "ping">>
      [] p = "fallback" -> <<"default", "chat">>
      [] p = "nomain" -> <<"ping">>
      [] OTHER -> <<>>

\* typeof pluginObj.main === 'function' (line 759)
HasMain(p) == p \in {"chatA", "chatB", "fallback"}

\* typeof pluginObj.init === 'function' (line 777)
HasInit(p) == p \in {"chatA", "chatB"}

\* typeof plugin.cleanup === 'function' (line 875)
HasCleanup(p) == p \in {"chatA", "fallback"}

\* A plugin object: the module object required from a directory.
PluginObj(d, p) == [dir |-> d, pkg |-> p]

\* null where a plugin object is expected
NoPlugin == [dir |-> <<"-", 0>>, pkg |-> "null"]

----------------------------------------------------------------------------
\* zip.getEntries(): the entries of an archive.  parts is the length of
\* entryName.split('/') ("a/" and "a/main.js" have 2, "b/sub/" has 3, "readme" has 1),
\* top is parts[0], pkg is what the files under top make up.
FileEntry(t, p) == [top |-> t, isDirectory |-> FALSE, parts |-> 2, pkg |-> p]

DirEntry(t, n) == [top |-> t, isDirectory |-> TRUE, parts |-> n, pkg |-> "empty"]

LooseFile(t) == [top |-> t, isDirectory |-> FALSE, parts |-> 1, pkg |-> "empty"]

ZipEntries(z) ==
    CASE z = "up.zip" -> {DirEntry("a", 2), FileEntry("a", "chatB")}
      [] z = "up2.zip" -> {FileEntry("a", "nomain")}
      [] z = "two.zip" -> {FileEntry("a", "chatA"), FileEntry("b", "fallback")}
      [] z = "dir.zip" -> {FileEntry("a", "fallback"), DirEntry("b", 3), LooseFile("readme")}
      [] OTHER -> {}

\* lines 665-671: the first path component of every non-directory entry that
\* has more than one component
TopLevelDirs(z) ==
    {e.top : e \in {x \in ZipEntries(z) : ~x.isDirectory /\ x.parts > 1}}

\* fs.renameSync(src, dst) throws when dst is a non-empty directory (rename(2), ENOTEMPTY)
RenameThrows(d, dst) == d[dst] \notin {"none", "empty"}

\* fs.renameSync(targetDir, backupDir), line 685
RenameSync(d, src, dst) == [d EXCEPT ![dst] = d[src], ![src] = "none"]

\* zip.extractAllTo(this.pluginDir, true), line 690: files are written (directories
\* made as needed, existing files overwritten), directory entries are made when absent.
\* Files at the top level of the archive land in pluginDir itself and are no directory.
ExtractAllTo(d, z) ==
    [n \in DirNames |->
        IF \E e \in ZipEntries(z) : ~e.isDirectory /\ e.parts > 1 /\ <<e.top, 0>> = n
        THEN (CHOOSE e \in ZipEntries(z) : ~e.isDirectory /\ e.parts > 1 /\ <<e.top, 0>> = n).pkg
        ELSE IF (\E e \in ZipEntries(z) : e.isDirectory /\ <<e.top, 0>> = n) /\ d[n] = "none"
        THEN "empty"
        ELSE d[n]]

\* lines 658-698, one iteration of the loop: fs = [dirs, zips], t = Date.now()
StageZip(fs, z, t) ==
    IF Cardinality(TopLevelDirs(z)) # 1
    THEN fs                                                 \* line 675: continue
    ELSE LET top == CHOOSE x \in TopLevelDirs(z) : TRUE
             targetDir == <<top, 0>>
             backupDir == <<top, t>>
         IN  IF fs.dirs[targetDir] # "none"                 \* line 682
             THEN IF RenameThrows(fs.dirs, backupDir)
                  THEN fs                                   \* line 696: caught, logged
                  ELSE [dirs |-> ExtractAllTo(RenameSync(fs.dirs, targetDir, backupDir), z),
                        zips |-> fs.zips \ {z}]
             ELSE [dirs |-> ExtractAllTo(fs.dirs, z), zips |-> fs.zips \ {z}]

\* lines 658-699: the loop over zipFiles, in readdir order, with the clock read per archive
RECURSIVE StageAll(_, _, _)
StageAll(fs, order, stamps) ==
    IF order = <<>> THEN fs
    ELSE StageAll(StageZip(fs, Head(order), Head(stamps)), Tail(order), Tail(stamps))

\* line 682: the iteration reaches Date.now()
ReadsClock(fs, z) ==
    /\ Cardinality(TopLevelDirs(z)) = 1
    /\ \E top \in TopLevelDirs(z) : fs.dirs[<<top, 0>>] # "none"

\* what each iteration of that loop found and left
RECURSIVE StageLog(_, _, _)
StageLog(fs, order, stamps) ==
    IF order = <<>> THEN <<>>
    ELSE <<[zip |-> Head(order), stamp |-> Head(stamps), before |-> fs,
            after |-> StageZip(fs, Head(order), Head(stamps)),
            readClock |-> ReadsClock(fs, Head(order))]>>
         \o StageLog(StageZip(fs, Head(order), Head(stamps)), Tail(order), Tail(stamps))

\* the orders fs.readdirSync may list a set of names in
Orders(S) ==
    {s \in [1 .. Cardinality(S) -> S] : \A i, j \in 1 .. Cardinality(S) : i # j => s[i] # s[j]}

\* the values the Date.now() calls of one scan may return when the last scan read t0:
\* later than t0, and not decreasing.  MaxStamp + 1 stands for every later time.
Stamps(n, t0) ==
    {s \in [1 .. n -> (t0 + 1) .. (MaxStamp + 1)] : \A i, j \in 1 .. n : i < j => s[i] <= s[j]}

----------------------------------------------------------------------------
\* The Map this.plugins, as the sequence of its entries in insertion order.

\* this.plugins.get(k); NoPlugin stands for undefined
MapGet(m, k) ==
    IF \E i \in DOMAIN m : m[i].type = k
    THEN m[CHOOSE i \in DOMAIN m : m[i].type = k].plugin
    ELSE NoPlugin

\* a set that keeps the value of an existing key (first registration wins)
MapSetKeepFirst(m, k, v) ==
    IF \E i \in DOMAIN m : m[i].type = k THEN m
    ELSE Append(m, [type |-> k, plugin |-> v])

\* this.plugins.set(k, v): an existing key keeps its place and gets the new value
MapSet(m, k, v) ==
    IF \E i \in DOMAIN m : m[i].type = k
    THEN [i \in DOMAIN m |-> IF m[i].type = k THEN [type |-> k, plugin |-> v] ELSE m[i]]
    ELSE Append(m, [type |-> k, plugin |-> v])

\* lines 768-774: register obj under each of types, "default" going to the default slot
RECURSIVE RegisterTypes(_, _)
RegisterTypes(reg, types) ==
    IF types = <<>> THEN reg
    ELSE RegisterTypes(
            IF Head(types) = "default"
            THEN [reg EXCEPT !.defaultPlugin = reg.obj]
            ELSE [reg EXCEPT !.plugins = MapSet(reg.plugins, Head(types), reg.obj)],
            Tail(types))

\* a loop that a directory it cannot load ends
AbortScan(q) == <<>>

\* lines 743, 761 and 783-785: continue, and the catch inside the loop: a directory
\* that cannot be loaded is left and the loop goes on with the directories after it
SkipDirectory(q) == Tail(q)

\* lines 738-786: the loop over pluginDirs, run up to the next awaited init() or to its
\* end.  d is the file system as it is when the loop runs.
RECURSIVE LoadLoop(_, _, _, _)
LoadLoop(pl, df, q, d) ==
    IF q = <<>>
    THEN [plugins |-> pl, defaultPlugin |-> df, queue |-> <<>>, awaitInit |-> NoPlugin,
          registered |-> <<>>]
    ELSE LET dir == Head(q)
             pkg == d[dir]
             obj == PluginObj(dir, pkg)
         IN  IF ~HasManifest(pkg) THEN LoadLoop(pl, df, SkipDirectory(q), d)       \* line 743
             ELSE IF RequireThrows(pkg) THEN LoadLoop(pl, df, SkipDirectory(q), d) \* line 783
             ELSE IF ~HasMain(pkg) THEN LoadLoop(pl, df, SkipDirectory(q), d)      \* line 761
             ELSE LET reg == RegisterTypes([plugins |-> pl, defaultPlugin |-> df, obj |-> obj],
                                           ProcessingTypes(pkg))
                  IN  IF HasInit(pkg)
                      THEN [plugins |-> reg.plugins, defaultPlugin |-> reg.defaultPlugin,
                            queue |-> Tail(q), awaitInit |-> obj,         \* line 778
                            registered |-> <<obj>>]
                      ELSE [LoadLoop(reg.plugins, reg.defaultPlugin, Tail(q), d)
                                EXCEPT !.registered = <<obj>> \o @]

\* lines 738-786: the registry the loop leaves when every awaited init() has returned
RECURSIVE FinishLoad(_, _, _, _)
FinishLoad(pl, df, q, d) ==
    LET r == LoadLoop(pl, df, q, d)
    IN  IF r.awaitInit = NoPlugin
        THEN [plugins |-> r.plugins, defaultPlugin |-> r.defaultPlugin]
        ELSE FinishLoad(r.plugins, r.defaultPlugin, r.queue, d)

\* lines 886-893: the plugins cleanupPlugin is called with, in order, kept when
\* they have a cleanup function (line 875)
CleanupCalls(pl, df) ==
    LET all == [i \in DOMAIN pl |-> pl[i].plugin] \o (IF df # NoPlugin THEN <<df>> ELSE <<>>)
    IN  SelectSeq(all, LAMBDA o : HasCleanup(o.pkg))

\* no cleanup() was called yet
NoTeardown == [by |-> "none", loaded |-> <<>>, called |-> <<>>, done |-> FALSE]

\* cleanup() (lines 871-894) called by `by` over the plugins `loaded`, up to the first
\* hook it awaits: cq are the hooks it will call
StartTeardown(by, loaded, cq) ==
    [by |-> by, loaded |-> loaded,
     called |-> IF cq = <<>> THEN <<>> ELSE <<Head(cq)>>, done |-> cq = <<>>]

\* cleanup() resumed when the hook at the head of cq returned or threw (lines 877-881)
NextTeardown(t, by, cq) ==
    IF t.by # by THEN t
    ELSE IF Tail(cq) = <<>> THEN [t EXCEPT !.done = TRUE]
    ELSE [t EXCEPT !.called = Append(@, Head(Tail(cq)))]

\* cleanup() is not iterating
NoIter == [phase |-> "none", idx |-> 0]

\* lines 886-893 for a cleanup() that runs while the registry may change: the hook
\* awaited next when i entries of the Map as it is now have been visited, phase
\* "end" when none is left.  The iterator of the Map is live: it sees the entries
\* set after it was created.
NextHook(pl, df, i) ==
    LET rest == {j \in DOMAIN pl : j > i /\ HasCleanup(pl[j].plugin.pkg)}
    IN  IF rest # {}
        THEN LET j == CHOOSE x \in rest : \A y \in rest : x <= y
             IN  [phase |-> "map", idx |-> j, obj |-> pl[j].plugin]
        ELSE IF df # NoPlugin /\ HasCleanup(df.pkg)
        THEN [phase |-> "default", idx |-> Len(pl), obj |-> df]
        ELSE [phase |-> "end", idx |-> Len(pl), obj |-> NoPlugin]

\* line 721, this.plugins.clear(), under an iterator of the Map: the entries it had
\* not visited are gone and every entry set from now on is still ahead of it
ClearUnder(it) == IF it.phase = "map" THEN [it EXCEPT !.idx = 0] ELSE it

\* lines 732-734: the directories readdirSync lists
ExistingDirs(d) == {n \in DirNames : d[n] # "none"}

----------------------------------------------------------------------------
\* processMessage (lines 847-869)

\* "插件处理出错", line 855
Failure == "PLUGIN_ERROR_REPLY"

\* what a plugin's main may return: null, the strings "hello", " " (blank) and ""
\* (empty), {text}, {image: url}, {image: Buffer}, {}
HandlerResults ==
    {"null", "hello", "blank", "empty", "objText", "objImageUrl", "objImageBuf", "objEmpty"}

MsgTypes == {"chat", "ping"}

MsgBodies == {<<>>, <<"hi">>}

\* no reply request was issued
NoReply == [kind |-> "none", to |-> "nobody", content |-> "none"]

IdleCall ==
    [pc |-> "idle", origin |-> "none", text |-> <<>>, msgType |-> "", msgContent |-> <<>>,
     isPrivate |-> FALSE, slot |-> "none", target |-> NoPlugin, mainArgs |-> <<>>,
     mains |-> 0, outcome |-> "none", mainValue |-> "null", result |-> "null",
     duringLoad |-> FALSE, replies |-> 0, reply |-> NoReply]

\* lines 849-850 and 860: the plugin that answers msgType
Route(pl, df, msgType) ==
    IF MapGet(pl, msgType) # NoPlugin
    THEN [slot |-> "type", plugin |-> MapGet(pl, msgType)]
    ELSE IF df # NoPlugin
    THEN [slot |-> "default", plugin |-> df]
    ELSE [slot |-> "none", plugin |-> NoPlugin]

\* a call that hands main the slot name instead of the type of the message
MainArgsSlotName(msgType, msgContent, senderOpenid, isPrivate) ==
    <<"default", msgContent, senderOpenid, isPrivate>>

\* lines 852 and 862: the arguments main is called with
MainArgs(msgType, msgContent, senderOpenid, isPrivate) ==
    <<msgType, msgContent, senderOpenid, isPrivate>>

\* a catch that only logs, whatever the slot
OnMainFailureLogOnly(slot) == "null"

\* lines 853-856 and 863-868: what processMessage returns when main threw or rejected
OnMainFailure(slot) == IF slot = "type" THEN Failure ELSE "null"

\* processMessage up to its await: sync is "throw" when main throws synchronously
StartCall(pl, df, origin, msgType, msgContent, isPrivate, sync) ==
    LET r == Route(pl, df, msgType)
        c == [IdleCall EXCEPT !.origin = origin, !.msgType = msgType, !.msgContent = msgContent,
                              !.isPrivate = isPrivate, !.slot = r.slot, !.target = r.plugin]
    IN  IF r.slot = "none"
        THEN [c EXCEPT !.pc = "done", !.result = "null"]                  \* line 868
        ELSE LET m == [c EXCEPT !.mains = @ + 1,
                                !.mainArgs = MainArgs(msgType, msgContent, "user", isPrivate)]
             IN  IF sync = "throw"
                 THEN [m EXCEPT !.pc = "done", !.outcome = "threw",
                                !.result = OnMainFailure(r.slot)]
                 ELSE [m EXCEPT !.pc = "main"]

\* a processMessage that hands a message to the default plugin when the plugin of
\* its type failed
SettleCallFallThrough(c, how, value) ==
    IF how = "resolve"
    THEN [c EXCEPT !.pc = "done", !.outcome = "returned", !.mainValue = value,
                   !.result = value]
    ELSE IF c.slot = "type" /\ defaultPlugin # NoPlugin
    THEN [c EXCEPT !.slot = "default", !.target = defaultPlugin, !.mains = @ + 1]
    ELSE [c EXCEPT !.pc = "done", !.outcome = "rejected", !.result = "null"]

\* processMessage resumed when the promise of main settles
SettleCall(c, how, value) ==
    IF how = "resolve"
    THEN [c EXCEPT !.pc = "done", !.outcome = "returned", !.mainValue = value,
                   !.result = value]
    ELSE [c EXCEPT !.pc = "done", !.outcome = "rejected", !.result = OnMainFailure(c.slot)]

----------------------------------------------------------------------------
\* QQBot

MaxSeq == 2             \* sequence numbers 1..MaxSeq
MaxReconnect == 2       \* pending timers of safeResetConnection
MaxStray == 1           \* pending periodic-reset timers no field holds
MaxRefresh == 1         \* token refresh requests in flight
MaxSends == 1           \* reply requests in flight

\* d.heartbeat_interval of the gateway's hello frame
HelloInterval == 45000

Sids == {"s1", "s2"}

\* the delays safeResetConnection is called with (lines 977, 1081, 1091, 1097, 1150)
Delays == {0, 3000, 5000}

\* no frame sent yet; readySid and stored are what the session held when it was sent
NoFrame ==
    [op |-> -1, session_id |-> "null", seq |-> -1, afterCleanClose |-> FALSE,
     readySid |-> "null", stored |-> -1]

\* A message text is a sequence of atoms: " " is a run of whitespace, any other atom a
\* run of non-whitespace characters.  <<>> is the empty string.
Contents ==
    {<<"chat">>, <<" ", "ping", " ", "hi", " ">>, <<"chat", " ", "a", " ", "b">>, <<" ">>}

IsSpace(a) == a = " "

RECURSIVE TrimStart(_)
TrimStart(m) == IF m # <<>> /\ IsSpace(Head(m)) THEN TrimStart(Tail(m)) ELSE m

RECURSIVE TrimEnd(_)
TrimEnd(m) ==
    IF m # <<>> /\ IsSpace(m[Len(m)]) THEN TrimEnd(SubSeq(m, 1, Len(m) - 1)) ELSE m

\* a parse that matches the text as it came, leading whitespace included
ParseMessageUnstripped(m) ==
    IF m = <<>> \/ IsSpace(Head(m))
    THEN [match |-> FALSE, msgType |-> "", msgContent |-> <<>>]
    ELSE [match |-> TRUE, msgType |-> Head(m), msgContent |-> TrimEnd(TrimStart(Tail(m)))]

\* lines 1220-1228: msg.replace(/^[\s]+/, '').match(/^(\S+)([\s\S]*)$/), then
\* match[1] and match[2].trim()
ParseMessage(m) ==
    LET trimmed == TrimStart(m)
    IN  IF trimmed = <<>>
        THEN [match |-> FALSE, msgType |-> "", msgContent |-> <<>>]
        ELSE [match |-> TRUE, msgType |-> Head(trimmed),
              msgContent |-> TrimEnd(TrimStart(Tail(trimmed)))]

\* JavaScript truthiness of a handler result (line 1236: if (!retMsg) return)
Truthy(r) == r \notin {"null", "empty"}

\* typeof r === 'string'
IsString(r) == r \in {"hello", "blank", "empty", Failure}

\* r.trim() of a string r is not empty (line 1239)
TrimTruthy(r) == r \in {"hello", Failure}

\* lines 1236-1286: what is sent for a handler result, and after which awaits
ReplyKind(r) ==
    IF ~Truthy(r) THEN "none"                                        \* line 1236
    ELSE IF IsString(r) /\ TrimTruthy(r) THEN "text"                 \* line 1239
    ELSE IF IsString(r) THEN "none"                                  \* line 1248
    ELSE IF r = "objImageUrl" THEN "imageUrl"                        \* lines 1253-1254
    ELSE IF r = "objImageBuf" THEN "imageBuf"                        \* line 1256
    ELSE IF r = "objText" THEN "text"                                \* line 1276
    ELSE "none"

\* replies that all go to the group
DestinationGroupOnly(isPrivate) == "group"

\* lines 1240-1246 and 1277-1283: sendPrivateMessage goes to sender_openid,
\* botSendMessage to group_id
Destination(isPrivate) == IF isPrivate THEN "sender" ELSE "group"

\* the content of a text reply: the string itself, or retMsg.text
TextOf(r) == IF IsString(r) THEN r ELSE "text of " \o r

\* processMessages after processMessage returned, up to its next await: the call
\* record then, and the number of reply requests issued
Reply(c) ==
    IF c.origin # "msg" \/ c.pc # "done" THEN [call |-> c, send |-> 0]
    ELSE CASE ReplyKind(c.result) = "text" ->
                [call |-> [c EXCEPT !.replies = @ + 1,
                                    !.reply = [kind |-> "text", to |-> Destination(c.isPrivate),
                                               content |-> TextOf(c.result)]],
                 send |-> 1]
           [] ReplyKind(c.result) = "imageUrl" -> [call |-> [c EXCEPT !.pc = "upload"], send |-> 0]
           [] ReplyKind(c.result) = "imageBuf" -> [call |-> [c EXCEPT !.pc = "img2url"], send |-> 0]
           [] OTHER -> [call |-> c, send |-> 0]

\* the frames the gateway sends: s = 0 stands for no s, hbi = 0 for no heartbeat_interval
Frame(op, s, t, content, group, hbi, sid) ==
    [op |-> op, s |-> s, t |-> t, content |-> content, group |-> group,
     hbi |-> hbi, sid |-> sid]

Frames ==
    {Frame(10, 0, "", <<>>, FALSE, HelloInterval, "null")}
    \cup {Frame(0, s, "READY", <<>>, FALSE, 0, sid) : s \in 1 .. MaxSeq, sid \in Sids}
    \cup {Frame(0, s, "RESUMED", <<>>, FALSE, 0, "null") : s \in 1 .. MaxSeq}
    \cup {Frame(0, s, "MESSAGE", c, g, 0, "null") :
            s \in 1 .. MaxSeq, c \in Contents, g \in BOOLEAN}
    \cup {Frame(7, 0, "", <<>>, FALSE, 0, "null"), Frame(9, 0, "", <<>>, FALSE, 0, "null"),
          Frame(11, 0, "", <<>>, FALSE, 0, "null")}

Total(f) == f[0] + f[3000] + f[5000]

\* a clearInterval that ends a loop whether or not the field holds one
EndOneLoop(timer, loops) == loops - 1

\* the interval the field holds goes on running
KeepInterval(timer, loops) == loops

\* lines 1119-1120 and 1163: if (this.heartbeatTimer) clearInterval(this.heartbeatTimer)
\* ends the loop the field holds
ClearInterval(timer, loops) == IF timer = "armed" THEN loops - 1 ELSE loops

\* what cleanupResources works on: the three timer fields and the socket
Resources ==
    [heartbeatTimer |-> heartbeatTimer, heartbeatLoops |-> heartbeatLoops,
     tokenRefreshTimer |-> tokenRefreshTimer, connectionResetTimer |-> connectionResetTimer,
     ws |-> ws, wsReady |-> wsReady]

\* lines 1136-1139: close() is called on a socket that is open
CloseCalled(r) == r.ws # "null" /\ r.ws = "open"

\* close() on a socket still connecting aborts the handshake with an error, which a
\* socket without listeners throws
CloseThrows(readyState) == readyState = "connecting"

\* the clearInterval, clearTimeout and removeAllListeners calls accept whatever they
\* get: the procedure throws when its close() does
CleanupThrows(r) == CloseCalled(r) /\ CloseThrows(r.ws)

\* lines 1117-1142 as a function of the resources: each field that is set is
\* cancelled and nulled, the socket loses its listeners and is forgotten
Cleaned(r) ==
    [heartbeatTimer |-> IF r.heartbeatTimer # "null" THEN "null" ELSE r.heartbeatTimer,
     heartbeatLoops |-> ClearInterval(r.heartbeatTimer, r.heartbeatLoops),
     tokenRefreshTimer |-> IF r.tokenRefreshTimer # "null" THEN "null"
                           ELSE r.tokenRefreshTimer,
     connectionResetTimer |-> IF r.connectionResetTimer # "null" THEN "null"
                              ELSE r.connectionResetTimer,
     ws |-> IF r.ws # "null" THEN "null" ELSE r.ws,
     wsReady |-> IF r.ws # "null" THEN FALSE ELSE r.wsReady]

\* lines 1117-1142: whatever the timers and the socket were, they are cancelled,
\* closed and forgotten
CleanupResources ==
    /\ heartbeatTimer' = Cleaned(Resources).heartbeatTimer
    /\ heartbeatLoops' = Cleaned(Resources).heartbeatLoops
    /\ tokenRefreshTimer' = Cleaned(Resources).tokenRefreshTimer
    /\ connectionResetTimer' = Cleaned(Resources).connectionResetTimer
    /\ ws' = Cleaned(Resources).ws
    /\ wsReady' = Cleaned(Resources).wsReady

\* a reset that cleans up and schedules no reconnect
ResetWithoutReconnect(delay) ==
    IF isShuttingDown
    THEN UNCHANGED <<heartbeatTimer, heartbeatLoops, tokenRefreshTimer,
                     connectionResetTimer, ws, wsReady, reconnectTimers>>
    ELSE /\ CleanupResources
         /\ UNCHANGED reconnectTimers

\* lines 1101-1114, up to the setTimeout
SafeResetConnection(delay) ==
    IF isShuttingDown
    THEN UNCHANGED <<heartbeatTimer, heartbeatLoops, tokenRefreshTimer, connectionResetTimer, ws, wsReady,
                     reconnectTimers>>
    ELSE /\ CleanupResources
         /\ reconnectTimers' = [reconnectTimers EXCEPT ![delay] = @ + 1]

\* every trigger reconnects at once
SameDelay(trigger) == 0

\* the delay each trigger passes to safeResetConnection: handleClose (line 1091),
\* handleError (line 1097); opcodes 7 and 9 (line 1081) and the periodic timer
\* (line 1150) pass none and get the default of line 1101
ResetDelay(trigger) ==
    CASE trigger = "close" -> 3000
      [] trigger = "error" -> 5000
      [] OTHER -> 0

\* the model holds at most MaxReconnect pending reconnect timers
CanReset == isShuttingDown \/ Total(reconnectTimers) < MaxReconnect

\* the process runs: no handler is called once process.exit was (lines 952, 1297,
\* src/toImg.js lines 111-112)
Alive == shutPc # "exited"

\* a test that never finds a load running
NeverLoading(flag) == FALSE

\* line 707: if (this.isLoading), the call returns at line 709
AlreadyLoading(flag) == flag

\* a test that never finds an attempt running
NeverConnecting(flag) == FALSE

\* line 957: if (this.isConnecting), the call returns at line 959
AlreadyConnecting(flag) == flag

\* lines 1015-1026: the frame handleOpen sends
OpenFrame(restore, sid, sq) ==
    IF restore
    THEN [op |-> 6, session_id |-> sid, seq |-> sq + 1]
    ELSE [op |-> 2, session_id |-> "null", seq |-> -1]

\* lines 1066-1069: the sequence number after a frame with s
NextSeq(sq, s) == IF s # 0 THEN s ELSE sq

----------------------------------------------------------------------------
fsVars == <<pluginDirExists, dirs, zips, now>>

loadVars ==
    <<plugins, defaultPlugin, isLoading, loadPc, loadCaller, cleanupQueue, scanQueue,
      awaitInit, staged, registered, initCalled, generation, teardown, shutIter>>

shutVars == <<isShuttingDown, shutPc, signalled>>

debounceVars ==
    <<reloadDebounce, debounceTimers, reloadCalls, bursts, burstSize, sinceNotify, unnotified>>

fieldVars == <<heartbeat_interval, session_id, seq, restoreLink, accessToken>>

resetVars ==
    <<heartbeatTimer, heartbeatLoops, tokenRefreshTimer, connectionResetTimer, ws, wsReady,
      reconnectTimers>>

frameVars == <<openFrame, hbFrame, lastReadySid, lastS, maxS, cleanClosed>>

vars ==
    <<pluginDirExists, dirs, zips, now, plugins, defaultPlugin, isLoading, watcher,
      reloadDebounce, debounceTimers, loadPc, loadCaller, cleanupQueue, scanQueue,
      awaitInit, call, heartbeat_interval, session_id, seq, restoreLink, accessToken,
      isConnecting, isShuttingDown, heartbeatTimer, tokenRefreshTimer,
      connectionResetTimer, ws, initPc, reconnectTimers, strayResetTimers,
      refreshInFlight, pendingSends, staged, registered, initCalled, reloadCalls,
      bursts, burstSize, sinceNotify, openFrame, hbFrame, lastReadySid, lastS, maxS, wsReady, cleanClosed,
      started, generation, teardown, shutPc, shutIter, signalled, refused, heartbeatLoops, unnotified>>

\* the plugin directories the bot may be started with
InitDirs ==
    {[n \in DirNames |-> IF n = <<"a", 0>> THEN c1 ELSE IF n = <<"b", 0>> THEN c2 ELSE "none"] :
        c1 \in Content, c2 \in Content}

\* the state after new QQBot() (lines 907-936) and new PluginManager() (lines 636-644)
InitFields ==
    /\ now = 0
    /\ plugins = <<>>
    /\ defaultPlugin = NoPlugin
    /\ isLoading = FALSE
    /\ watcher = FALSE
    /\ reloadDebounce = 0
    /\ debounceTimers = [h \in 1 .. MaxTimers |-> -1]
    /\ loadPc = "idle"
    /\ loadCaller = "none"
    /\ cleanupQueue = <<>>
    /\ scanQueue = <<>>
    /\ awaitInit = NoPlugin
    /\ call = IdleCall
    /\ heartbeat_interval = 0
    /\ session_id = "null"
    /\ seq = 0
    /\ restoreLink = FALSE
    /\ accessToken = "null"
    /\ isConnecting = FALSE
    /\ isShuttingDown = FALSE
    /\ heartbeatTimer = "null"
    /\ heartbeatLoops = 0
    /\ tokenRefreshTimer = "null"
    /\ connectionResetTimer = "null"
    /\ ws = "null"
    /\ initPc = "idle"
    /\ reconnectTimers = [d \in Delays |-> 0]
    /\ strayResetTimers = 0
    /\ refreshInFlight = 0
    /\ pendingSends = 0
    /\ staged = <<>>
    /\ registered = <<>>
    /\ initCalled = {}
    /\ reloadCalls = 0
    /\ bursts = 0
    /\ burstSize = 0
    /\ sinceNotify = DebounceDelay
    /\ unnotified = [zips |-> {}, dirs |-> {}]
    /\ openFrame = NoFrame
    /\ hbFrame = [sent |-> FALSE, d |-> -1]
    /\ lastReadySid = "null"
    /\ lastS = 0
    /\ maxS = 0
    /\ wsReady = FALSE
    /\ cleanClosed = FALSE
    /\ started = FALSE
    /\ generation = [plugins |-> <<>>, defaultPlugin |-> NoPlugin, loaded |-> FALSE]
    /\ teardown = NoTeardown
    /\ shutPc = "idle"
    /\ shutIter = NoIter
    /\ signalled = FALSE
    /\ refused = [load |-> FALSE, init |-> FALSE]

\* any plugin directories, no archive yet
Init ==
    /\ InitFields
    /\ pluginDirExists \in BOOLEAN
    /\ dirs \in InitDirs
    /\ pluginDirExists = FALSE => \A n \in DirNames : dirs[n] = "none"
    /\ zips = {}

----------------------------------------------------------------------------
\* loadPlugins (lines 706-794)

\* the caller of loadPlugins stays suspended at its await
Suspend(caller) ==
    IF caller = "init" THEN initPc' = "load" /\ UNCHANGED watcher
    ELSE UNCHANGED <<initPc, watcher>>

\* the caller of loadPlugins goes on: init (lines 969-971, 985, 1191) starts the
\* watcher and requests the token; reloadPlugins only logs
Resume(caller) ==
    IF caller = "init" THEN initPc' = "token" /\ watcher' = TRUE
    ELSE UNCHANGED <<initPc, watcher>>

\* the state the loop of line 738 leaves when it suspends or ends (line 792)
ApplyLoop(r, caller, called, loaded) ==
    /\ plugins' = r.plugins
    /\ registered' = loaded \o r.registered
    /\ defaultPlugin' = r.defaultPlugin
    /\ scanQueue' = r.queue
    /\ awaitInit' = r.awaitInit
    /\ cleanupQueue' = <<>>
    /\ IF r.awaitInit # NoPlugin
       THEN /\ initCalled' = called \cup {r.awaitInit}
            /\ loadPc' = "init"
            /\ isLoading' = TRUE
            /\ loadCaller' = caller
            /\ Suspend(caller)
            /\ UNCHANGED generation
       ELSE /\ initCalled' = called
            /\ generation' = [plugins |-> r.plugins, defaultPlugin |-> r.defaultPlugin,
                               loaded |-> TRUE]
            /\ loadPc' = "idle"
            /\ isLoading' = FALSE
            /\ loadCaller' = "none"
            /\ Resume(caller)

\* lines 721-738: clear the registry, list the directories, enter the loop
ScanAndLoad(caller, d) ==
    /\ shutIter' = ClearUnder(shutIter)
    /\ \E order \in Orders(ExistingDirs(d)) :
          ApplyLoop(LoadLoop(<<>>, NoPlugin, order, d), caller, {}, <<>>)

\* lines 712-720: a call of loadPlugins that found isLoading false, up to its first
\* await that suspends
LoadPlugins(caller) ==
    \E order \in Orders(zips) : \E stamps \in Stamps(Cardinality(zips), now) :
        LET fs0 == [dirs |-> dirs, zips |-> zips]
            log == IF pluginDirExists THEN StageLog(fs0, order, stamps) ELSE <<>>
            fs1 == IF log = <<>> THEN fs0 ELSE log[Len(log)].after
            read == {i \in DOMAIN log : log[i].readClock}
            cq == CleanupCalls(plugins, defaultPlugin)
        IN  /\ \A i \in read : log[i].stamp <= MaxStamp
            /\ pluginDirExists' = TRUE                      \* line 651
            /\ dirs' = fs1.dirs
            /\ zips' = fs1.zips
            /\ now' = IF read = {} THEN now ELSE log[CHOOSE i \in read : \A j \in read : j <= i].stamp
            /\ staged' = log
            /\ teardown' = StartTeardown("load", registered, cq)
            /\ IF cq # <<>>
               THEN /\ cleanupQueue' = cq
                    /\ loadPc' = "cleanup"
                    /\ isLoading' = TRUE
                    /\ loadCaller' = caller
                    /\ Suspend(caller)
                    /\ initCalled' = {}
                    /\ registered' = <<>>
                    /\ UNCHANGED <<plugins, defaultPlugin, scanQueue, awaitInit, generation,
                                   shutIter>>
               ELSE ScanAndLoad(caller, fs1.dirs)

\* a cleanup hook awaited by loadPlugins returns or throws (lines 877-881): the next
\* hook is called, or the registry is cleared and the directories are loaded
LoadCleanupReturn ==
    /\ Alive
    /\ loadPc = "cleanup"
    /\ teardown' = NextTeardown(teardown, "load", cleanupQueue)
    /\ IF Tail(cleanupQueue) # <<>>
       THEN /\ cleanupQueue' = Tail(cleanupQueue)
            /\ UNCHANGED <<plugins, defaultPlugin, isLoading, loadPc, loadCaller, scanQueue,
                           awaitInit, registered, initCalled, initPc, watcher, generation,
                           shutIter>>
       ELSE ScanAndLoad(loadCaller, dirs)
    /\ UNCHANGED <<fsVars, staged, debounceVars, call, fieldVars, resetVars, frameVars,
                   isConnecting, shutVars, strayResetTimers, refreshInFlight,
                   pendingSends, started, refused>>

\* the init hook awaited by loadPlugins returns or throws (lines 778-785): the loop
\* goes on with the next directory
LoadInitReturn ==
    /\ Alive
    /\ loadPc = "init"
    /\ ApplyLoop(LoadLoop(plugins, defaultPlugin, scanQueue, dirs), loadCaller, initCalled,
                 registered)
    /\ UNCHANGED <<fsVars, staged, teardown, shutIter, debounceVars, call, fieldVars, resetVars, frameVars,
                   isConnecting, shutVars, strayResetTimers, refreshInFlight,
                   pendingSends, started, refused>>

----------------------------------------------------------------------------
\* The plugin directory: archives dropped, the watcher, the debounce timer

\* an operator copies an archive into pluginDir
DropZip(z) ==
    /\ Alive
    /\ pluginDirExists
    /\ z \notin zips
    /\ zips' = zips \cup {z}
    /\ unnotified' = IF watcher THEN [unnotified EXCEPT !.zips = @ \cup {z}]
                      ELSE unnotified
    /\ UNCHANGED <<pluginDirExists, dirs, now, loadVars, watcher, reloadDebounce,
                   debounceTimers, reloadCalls, bursts, burstSize, sinceNotify, call,
                   fieldVars, resetVars, frameVars, isConnecting, shutVars, initPc,
                   strayResetTimers, refreshInFlight, pendingSends, started, refused>>

\* an operator moves the plugin directory n out of pluginDir
RemoveDir(n) ==
    /\ Alive
    /\ pluginDirExists
    /\ dirs[n] # "none"
    /\ dirs' = [dirs EXCEPT ![n] = "none"]
    /\ unnotified' = IF watcher THEN [unnotified EXCEPT !.dirs = @ \cup {n}]
                      ELSE unnotified
    /\ UNCHANGED <<pluginDirExists, zips, now, loadVars, watcher, reloadDebounce,
                   debounceTimers, reloadCalls, bursts, burstSize, sinceNotify, call,
                   fieldVars, resetVars, frameVars, isConnecting, shutVars, initPc,
                   strayResetTimers, refreshInFlight, pendingSends, started, refused>>

\* the file names fs.watch may report
FileNames == ZipNames \cup DirNames \cup {"notes.txt"}

\* lines 809-814: the path exists and is a directory or is named *.zip
Relevant(f) == (f \in ZipNames /\ f \in zips) \/ (f \in DirNames /\ dirs[f] # "none")

\* clearTimeout(h)
ClearTimeout(timers, h) == IF h # 0 THEN [timers EXCEPT ![h] = -1] ELSE timers

\* a handler that leaves the pending timer alone
KeepDebounce(timers, h) == timers

\* line 818: if (this.reloadDebounce) clearTimeout(this.reloadDebounce)
ClearDebounce(timers, h) == ClearTimeout(timers, h)

Pending(timers) == {h \in DOMAIN timers : timers[h] >= 0}

\* the callback of fs.watch (lines 802-829) for file name f
WatchEvent(f) ==
    /\ Alive
    /\ watcher
    /\ IF Relevant(f)
       THEN LET cleared == ClearDebounce(debounceTimers, reloadDebounce)
                free == {h \in DOMAIN cleared : cleared[h] < 0}
            IN  /\ free # {}
                /\ LET h == CHOOSE x \in free : \A y \in free : x <= y
                   IN  /\ debounceTimers' = [cleared EXCEPT ![h] = DebounceDelay]
                       /\ reloadDebounce' = h
                /\ bursts' = IF Pending(debounceTimers) = {} THEN bursts + 1 ELSE bursts
                /\ burstSize' = IF Pending(debounceTimers) = {} THEN 1
                                ELSE IF burstSize < MaxBurst THEN burstSize + 1
                                ELSE burstSize
                /\ sinceNotify' = 0
                /\ UNCHANGED reloadCalls
       ELSE UNCHANGED <<reloadDebounce, debounceTimers, reloadCalls, bursts, burstSize,
                        sinceNotify>>
    /\ unnotified' = IF f \in ZipNames THEN [unnotified EXCEPT !.zips = @ \ {f}]
                      ELSE IF f \in DirNames THEN [unnotified EXCEPT !.dirs = @ \ {f}]
                      ELSE unnotified
    /\ UNCHANGED <<fsVars, loadVars, watcher, call, fieldVars, resetVars, frameVars,
                   isConnecting, shutVars, initPc, strayResetTimers,
                   refreshInFlight, pendingSends, started, refused>>

\* fs.watch reports an archive that was dropped or a directory that was removed
Notify(f) ==
    /\ IF f \in ZipNames THEN f \in unnotified.zips
       ELSE f \in DirNames /\ f \in unnotified.dirs
    /\ WatchEvent(f)

\* half a debounce delay passes with no debounce timer due
Advance ==
    LET dt == DebounceDelay \div 2
    IN  /\ Alive
        /\ \A h \in Pending(debounceTimers) : debounceTimers[h] >= dt
        /\ Pending(debounceTimers) # {} \/ sinceNotify < DebounceDelay
        /\ debounceTimers' =
              [h \in DOMAIN debounceTimers |->
                  IF debounceTimers[h] >= 0 THEN debounceTimers[h] - dt ELSE -1]
        /\ sinceNotify' = IF sinceNotify + dt > DebounceDelay THEN DebounceDelay
                          ELSE sinceNotify + dt
        /\ UNCHANGED <<fsVars, loadVars, watcher, reloadDebounce, reloadCalls, bursts,
                       burstSize, unnotified, call,
                       fieldVars, resetVars, frameVars, isConnecting, shutVars, initPc,
                       strayResetTimers, refreshInFlight, pendingSends, started, refused>>

\* the debounce timer h fires (lines 820-823): reloadPlugins (lines 837-845) calls
\* loadPlugins, which returns at once when a load is running (line 707)
DebounceFire(h) ==
    /\ Alive
    /\ h \in Pending(debounceTimers)
    /\ debounceTimers[h] = 0
    /\ reloadCalls < MaxReloads
    /\ debounceTimers' = [debounceTimers EXCEPT ![h] = -1]
    /\ reloadCalls' = reloadCalls + 1
    /\ IF AlreadyLoading(isLoading)
       THEN /\ refused' = [refused EXCEPT !.load = TRUE]                    \* line 709
            /\ UNCHANGED <<fsVars, loadVars, initPc, watcher>>
       ELSE LoadPlugins("watch") /\ UNCHANGED refused
    /\ UNCHANGED <<reloadDebounce, bursts, burstSize, sinceNotify, unnotified, call,
                   fieldVars, resetVars, frameVars, isConnecting, shutVars, strayResetTimers,
                   refreshInFlight, pendingSends, started>>

----------------------------------------------------------------------------
\* processMessage called and resumed

\* pluginManager.processMessage(t, b, "user", p) is called
Dispatch(t, b, p) ==
    /\ Alive
    /\ call.pc \in {"idle", "done"}
    /\ \E sync \in {"throw", "pending"} :
          call' = [StartCall(plugins, defaultPlugin, "direct", t, b, p, sync)
                      EXCEPT !.duringLoad = isLoading]
    /\ UNCHANGED <<fsVars, loadVars, watcher, debounceVars, fieldVars, resetVars, frameVars,
                   isConnecting, shutVars, initPc, strayResetTimers,
                   refreshInFlight, pendingSends, started, refused>>

\* the promise main returned settles: processMessage returns, and processMessages,
\* when it made the call, goes on to the reply
MainSettles(how, value) ==
    /\ Alive
    /\ call.pc = "main"
    /\ LET r == Reply(SettleCall(call, how, value))
       IN  /\ pendingSends + r.send <= MaxSends
           /\ call' = r.call
           /\ pendingSends' = pendingSends + r.send
    /\ UNCHANGED <<fsVars, loadVars, watcher, debounceVars, fieldVars, resetVars, frameVars,
                   isConnecting, shutVars, initPc, strayResetTimers,
                   refreshInFlight, started, refused>>

MainResolves == \E v \in HandlerResults : MainSettles("resolve", v)

MainRejects == MainSettles("reject", "null")

----------------------------------------------------------------------------
\* init (lines 956-981) and setupConnection (lines 984-1003)

\* a call of init(), up to its first await that suspends
InitCall ==
    IF AlreadyConnecting(isConnecting)
    THEN /\ refused' = [refused EXCEPT !.init = TRUE]                       \* line 959
         /\ UNCHANGED <<isConnecting, initPc, watcher, fsVars, loadVars>>
    ELSE /\ isConnecting' = TRUE
         /\ IF AlreadyLoading(isLoading)
            THEN /\ refused' = [refused EXCEPT !.load = TRUE]               \* line 709
                 /\ Resume("init")
                 /\ UNCHANGED <<fsVars, loadVars>>
            ELSE LoadPlugins("init") /\ UNCHANGED refused

\* bot.init() of line 1295
BotStart ==
    /\ Alive
    /\ ~started
    /\ started' = TRUE
    /\ InitCall
    /\ UNCHANGED <<debounceVars, call, fieldVars, resetVars, frameVars, shutVars,
                   strayResetTimers, refreshInFlight, pendingSends>>

\* a timer of safeResetConnection fires (lines 1107-1113)
ReconnectFire(d) ==
    /\ Alive
    /\ reconnectTimers[d] > 0
    /\ reconnectTimers' = [reconnectTimers EXCEPT ![d] = @ - 1]
    /\ restoreLink' = TRUE
    /\ InitCall
    /\ UNCHANGED <<debounceVars, call, heartbeat_interval, session_id, seq, accessToken,
                   heartbeatTimer, heartbeatLoops, tokenRefreshTimer, connectionResetTimer, ws, wsReady,
                   frameVars, shutVars, strayResetTimers, refreshInFlight,
                   pendingSends, started>>

\* lines 1193-1206: the token is stored and the refresh timer replaced
StoreToken ==
    /\ accessToken' = "token"
    /\ tokenRefreshTimer' = "armed"

\* getAccessToken answers the anewGetAccessToken that setupConnection awaits;
\* getWsLink is requested (line 986)
InitTokenOk ==
    /\ Alive
    /\ initPc = "token"
    /\ StoreToken
    /\ initPc' = "wslink"
    /\ UNCHANGED <<fsVars, loadVars, watcher, debounceVars, call, heartbeat_interval,
                   session_id, seq, restoreLink, isConnecting, shutVars,
                   heartbeatTimer, heartbeatLoops, connectionResetTimer, ws, wsReady, reconnectTimers,
                   frameVars, strayResetTimers, refreshInFlight, pendingSends, started, refused>>

\* an init that lets the failure of setupConnection through: the promise of
\* bot.init() rejects and the catch of line 1295 ends the process
InitRejects ==
    /\ Alive
    /\ isConnecting' = FALSE
    /\ initPc' = "idle"
    /\ shutPc' = "exited"
    /\ UNCHANGED <<fsVars, loadVars, watcher, debounceVars, call, fieldVars, resetVars,
                   frameVars, isShuttingDown, signalled, refused, strayResetTimers,
                   refreshInFlight, pendingSends, started>>

\* lines 975-980: setupConnection threw; reset with a retry in 5000 ms, init ends
InitFails ==
    /\ Alive
    /\ CanReset
    /\ SafeResetConnection(5000)
    /\ isConnecting' = FALSE
    /\ initPc' = "idle"
    /\ refused' = [refused EXCEPT !.init = FALSE]
    /\ UNCHANGED <<fsVars, loadVars, watcher, debounceVars, call, fieldVars, frameVars,
                   shutVars, strayResetTimers, refreshInFlight, pendingSends, started>>

\* getAccessToken fails for the anewGetAccessToken that setupConnection awaits
InitTokenFail == initPc = "token" /\ InitFails

\* getWsLink fails
InitWsLinkFail == initPc = "wslink" /\ InitFails

\* getWsLink answers: lines 990-1002 replace the socket, line 972 arms the periodic
\* reset without clearing a timer the field holds, line 979 ends init
InitWsLinkOk ==
    /\ Alive
    /\ initPc = "wslink"
    /\ connectionResetTimer = "armed" => strayResetTimers < MaxStray
    /\ ws' = "connecting"
    /\ wsReady' = FALSE
    /\ connectionResetTimer' = "armed"
    /\ strayResetTimers' = IF connectionResetTimer = "armed" THEN strayResetTimers + 1
                           ELSE strayResetTimers
    /\ isConnecting' = FALSE
    /\ initPc' = "idle"
    /\ refused' = [refused EXCEPT !.init = FALSE]
    /\ UNCHANGED <<fsVars, loadVars, watcher, debounceVars, call, fieldVars, heartbeatTimer, heartbeatLoops,
                   tokenRefreshTimer, reconnectTimers, frameVars, shutVars,
                   refreshInFlight, pendingSends, started>>

----------------------------------------------------------------------------
\* The socket's listeners (lines 999-1002)

\* 'open': handleOpen (lines 1006-1028)
SocketOpen ==
    /\ Alive
    /\ ws = "connecting"
    /\ ws' = "open"
    /\ openFrame' = [op |-> OpenFrame(restoreLink, session_id, seq).op,
                     session_id |-> OpenFrame(restoreLink, session_id, seq).session_id,
                     seq |-> OpenFrame(restoreLink, session_id, seq).seq,
                     afterCleanClose |-> cleanClosed,
                     readySid |-> lastReadySid,
                     stored |-> seq]
    /\ restoreLink' = FALSE
    /\ cleanClosed' = FALSE
    /\ UNCHANGED <<fsVars, loadVars, watcher, debounceVars, call, heartbeat_interval,
                   session_id, seq, accessToken, heartbeatTimer, heartbeatLoops, tokenRefreshTimer,
                   connectionResetTimer, wsReady, reconnectTimers, hbFrame, lastReadySid,
                   lastS, maxS, isConnecting, shutVars, initPc, strayResetTimers,
                   refreshInFlight, pendingSends, started, refused>>

\* lines 1050-1057 and 1216-1236: processMessages up to its first await
ProcessMessages(f, sync) ==
    LET m == ParseMessage(f.content)
    IN  IF ~m.match
        THEN [call |-> [IdleCall EXCEPT !.origin = "msg", !.pc = "done",
                                        !.text = f.content, !.isPrivate = ~f.group],
              send |-> 0]
        ELSE Reply([StartCall(plugins, defaultPlugin, "msg", m.msgType, m.msgContent,
                              ~f.group, sync)
                       EXCEPT !.duringLoad = isLoading, !.text = f.content])

\* 'message': handleMessage (lines 1031-1086) for frame f
SocketMessage(f) ==
    /\ Alive
    /\ ws = "open"
    /\ IF f.content # <<>>
       THEN /\ call.pc \in {"idle", "done"}
            /\ \E sync \in {"throw", "pending"} :
                  /\ pendingSends + ProcessMessages(f, sync).send <= MaxSends
                  /\ call' = ProcessMessages(f, sync).call
                  /\ pendingSends' = pendingSends + ProcessMessages(f, sync).send
       ELSE UNCHANGED <<call, pendingSends>>
    /\ heartbeat_interval' = IF f.hbi # 0 THEN f.hbi ELSE heartbeat_interval
    /\ seq' = NextSeq(seq, f.s)
    /\ lastS' = IF f.s # 0 THEN f.s ELSE lastS
    /\ maxS' = IF f.s > maxS THEN f.s ELSE maxS
    /\ IF f.t = "READY"
       THEN /\ session_id' = f.sid
            /\ lastReadySid' = f.sid
            /\ hbFrame' = [sent |-> TRUE, d |-> -1]             \* line 1159: d: null
       ELSE UNCHANGED <<session_id, lastReadySid, hbFrame>>
    /\ IF f.op \in {7, 9}
       THEN CanReset /\ SafeResetConnection(ResetDelay("opcode"))
       ELSE IF f.t = "READY"
       THEN /\ heartbeatTimer' = "armed"                        \* lines 1163-1168
            /\ heartbeatLoops' = ClearInterval(heartbeatTimer, heartbeatLoops) + 1
            /\ wsReady' = TRUE
            /\ UNCHANGED <<tokenRefreshTimer, connectionResetTimer, ws, reconnectTimers>>
       ELSE UNCHANGED resetVars
    /\ UNCHANGED <<fsVars, loadVars, watcher, debounceVars, restoreLink, accessToken,
                   openFrame, cleanClosed, isConnecting, shutVars, initPc,
                   strayResetTimers, refreshInFlight, started, refused>>

\* 'close': handleClose (lines 1089-1092)
SocketClose ==
    /\ Alive
    /\ ws \in {"connecting", "open"}
    /\ CanReset
    /\ SafeResetConnection(ResetDelay("close"))
    /\ cleanClosed' = (cleanClosed \/ (ws = "open" /\ wsReady))
    /\ UNCHANGED <<fsVars, loadVars, watcher, debounceVars, call, fieldVars, openFrame,
                   hbFrame, lastReadySid, lastS, maxS, isConnecting, shutVars, initPc,
                   strayResetTimers, refreshInFlight, pendingSends, started, refused>>

\* 'error': handleError (lines 1095-1098)
SocketError ==
    /\ Alive
    /\ ws \in {"connecting", "open"}
    /\ CanReset
    /\ SafeResetConnection(ResetDelay("error"))
    /\ UNCHANGED <<fsVars, loadVars, watcher, debounceVars, call, fieldVars, frameVars,
                   isConnecting, shutVars, initPc, strayResetTimers,
                   refreshInFlight, pendingSends, started, refused>>

----------------------------------------------------------------------------
\* Timers and unawaited promises

\* process.on('uncaughtException') (lines 929-932); Node 18 (Dockerfile line 2) also
\* raises it for a rejected promise nobody handles
UncaughtException == SafeResetConnection(0)

\* the interval of sendHeartbeat fires (lines 1165-1168); this.ws.send throws when
\* this.ws is null or still connecting
HeartbeatFire ==
    /\ Alive
    /\ heartbeatLoops > 0
    /\ IF ws = "open"
       THEN hbFrame' = [sent |-> TRUE, d |-> seq] /\ UNCHANGED resetVars
       ELSE CanReset /\ UncaughtException /\ UNCHANGED hbFrame
    /\ UNCHANGED <<fsVars, loadVars, watcher, debounceVars, call, fieldVars, openFrame,
                   lastReadySid, lastS, maxS, cleanClosed, isConnecting, shutVars,
                   initPc, strayResetTimers, refreshInFlight, pendingSends, started, refused>>

\* the refresh timer fires (lines 1203-1206): anewGetAccessToken is called, unawaited
TokenRefreshFire ==
    /\ Alive
    /\ tokenRefreshTimer = "armed"
    /\ refreshInFlight < MaxRefresh
    /\ tokenRefreshTimer' = "fired"
    /\ refreshInFlight' = refreshInFlight + 1
    /\ UNCHANGED <<fsVars, loadVars, watcher, debounceVars, call, fieldVars, heartbeatTimer, heartbeatLoops,
                   connectionResetTimer, ws, wsReady, reconnectTimers, frameVars,
                   isConnecting, shutVars, initPc, strayResetTimers, pendingSends,
                   started, refused>>

\* getAccessToken answers a refresh
RefreshOk ==
    /\ Alive
    /\ refreshInFlight > 0
    /\ refreshInFlight' = refreshInFlight - 1
    /\ StoreToken
    /\ UNCHANGED <<fsVars, loadVars, watcher, debounceVars, call, heartbeat_interval,
                   session_id, seq, restoreLink, heartbeatTimer, heartbeatLoops, connectionResetTimer, ws,
                   wsReady, reconnectTimers, frameVars, isConnecting, shutVars, initPc,
                   strayResetTimers, pendingSends, started, refused>>

\* getAccessToken fails for a refresh: line 1211 rethrows into a promise nobody handles
RefreshFail ==
    /\ Alive
    /\ refreshInFlight > 0
    /\ refreshInFlight' = refreshInFlight - 1
    /\ CanReset
    /\ UncaughtException
    /\ UNCHANGED <<fsVars, loadVars, watcher, debounceVars, call, fieldVars, frameVars,
                   isConnecting, shutVars, initPc, strayResetTimers, pendingSends,
                   started, refused>>

\* the periodic timer held by connectionResetTimer fires (lines 1148-1151)
PeriodicResetFire ==
    /\ Alive
    /\ connectionResetTimer = "armed"
    /\ CanReset
    /\ SafeResetConnection(ResetDelay("periodic"))
    /\ UNCHANGED <<fsVars, loadVars, watcher, debounceVars, call, fieldVars, frameVars,
                   isConnecting, shutVars, initPc, strayResetTimers,
                   refreshInFlight, pendingSends, started, refused>>

\* a periodic timer that connectionResetTimer no longer holds fires
StrayResetFire ==
    /\ Alive
    /\ strayResetTimers > 0
    /\ strayResetTimers' = strayResetTimers - 1
    /\ CanReset
    /\ SafeResetConnection(ResetDelay("periodic"))
    /\ UNCHANGED <<fsVars, loadVars, watcher, debounceVars, call, fieldVars, frameVars,
                   isConnecting, shutVars, initPc, refreshInFlight, pendingSends,
                   started, refused>>

\* img2Url answers (line 1259): the upload is requested
Img2UrlOk ==
    /\ Alive
    /\ call.pc = "img2url"
    /\ call' = [call EXCEPT !.pc = "upload"]
    /\ UNCHANGED <<fsVars, loadVars, watcher, debounceVars, fieldVars, resetVars, frameVars,
                   isConnecting, shutVars, initPc, strayResetTimers,
                   refreshInFlight, pendingSends, started, refused>>

\* img2Url or the upload fails: caught at line 1287
ReplyAwaitFails ==
    /\ Alive
    /\ call.pc \in {"img2url", "upload"}
    /\ call' = [call EXCEPT !.pc = "done", !.reply = [NoReply EXCEPT !.kind = "failed"]]
    /\ UNCHANGED <<fsVars, loadVars, watcher, debounceVars, fieldVars, resetVars, frameVars,
                   isConnecting, shutVars, initPc, strayResetTimers,
                   refreshInFlight, pendingSends, started, refused>>

\* the upload answers (lines 1266, 1272): the image reply is requested, unawaited
UploadOk ==
    /\ Alive
    /\ call.pc = "upload"
    /\ pendingSends < MaxSends
    /\ call' = [call EXCEPT !.pc = "done", !.replies = @ + 1,
                            !.reply = [kind |-> "image", to |-> Destination(call.isPrivate),
                                       content |-> "text of " \o call.result]]
    /\ pendingSends' = pendingSends + 1
    /\ UNCHANGED <<fsVars, loadVars, watcher, debounceVars, fieldVars, resetVars, frameVars,
                   isConnecting, shutVars, initPc, strayResetTimers,
                   refreshInFlight, started, refused>>

\* a reply request is answered
SendOk ==
    /\ Alive
    /\ pendingSends > 0
    /\ pendingSends' = pendingSends - 1
    /\ UNCHANGED <<fsVars, loadVars, watcher, debounceVars, call, fieldVars, resetVars,
                   frameVars, isConnecting, shutVars, initPc, strayResetTimers,
                   refreshInFlight, started, refused>>

\* a reply request fails (api.js lines 41-51 reject): nobody handles the promise
SendFail ==
    /\ Alive
    /\ pendingSends > 0
    /\ pendingSends' = pendingSends - 1
    /\ CanReset
    /\ UncaughtException
    /\ UNCHANGED <<fsVars, loadVars, watcher, debounceVars, call, fieldVars, frameVars,
                   isConnecting, shutVars, initPc, strayResetTimers,
                   refreshInFlight, started, refused>>

----------------------------------------------------------------------------
\* shutdown (lines 938-953) and the listeners of SIGINT and SIGTERM

\* cleanup() of shutdown goes on from the state it, up to the hook it awaits next
\* (teardown records the call) or to its end: stopWatching and process.exit(0)
\* (lines 949-952)
ShutdownCleanup(it, t) ==
    /\ shutIter' = IF it.phase = "end" THEN NoIter ELSE [phase |-> it.phase, idx |-> it.idx]
    /\ teardown' = IF it.phase = "end" THEN [t EXCEPT !.done = TRUE]
                   ELSE [t EXCEPT !.called = Append(@, it.obj)]
    /\ shutPc' = IF it.phase = "end" THEN "exited" ELSE "cleanup"
    /\ watcher' = IF it.phase = "end" THEN FALSE ELSE watcher

\* shutdown() is called and isShuttingDown is false (line 939): up to its first
\* await that suspends, or to process.exit(0)
Shutdown ==
    /\ Alive
    /\ ~isShuttingDown
    /\ isShuttingDown' = TRUE
    /\ CleanupResources
    /\ ShutdownCleanup(NextHook(plugins, defaultPlugin, 0),
                       [by |-> "shutdown", loaded |-> registered, called |-> <<>>,
                        done |-> FALSE])
    /\ UNCHANGED <<fsVars, plugins, defaultPlugin, isLoading, loadPc, loadCaller,
                   cleanupQueue, scanQueue, awaitInit, staged, registered, initCalled,
                   generation, debounceVars, call, fieldVars, reconnectTimers, frameVars,
                   isConnecting, signalled, initPc, strayResetTimers, refreshInFlight,
                   pendingSends, started, refused>>

\* the hook awaited by the cleanup() of shutdown returns or throws (lines 877-881)
ShutdownCleanupReturn ==
    /\ shutPc = "cleanup"
    /\ ShutdownCleanup(IF shutIter.phase = "map"
                       THEN NextHook(plugins, defaultPlugin, shutIter.idx)
                       ELSE [phase |-> "end", idx |-> 0, obj |-> NoPlugin],
                       teardown)
    /\ UNCHANGED <<fsVars, plugins, defaultPlugin, isLoading, loadPc, loadCaller,
                   cleanupQueue, scanQueue, awaitInit, staged, registered, initCalled,
                   generation, debounceVars, call, fieldVars, resetVars, frameVars,
                   isConnecting, isShuttingDown, signalled, initPc, strayResetTimers,
                   refreshInFlight, pendingSends, started, refused>>

\* SIGINT or SIGTERM is delivered: the listeners run in the order they were
\* registered.  The first is the one toImg.js registered when line 575 required it,
\* () => process.exit() (src/toImg.js lines 111-112): the process exits in it, and the
\* listener of the QQBot constructor (lines 934-935) is not reached.
Signal ==
    /\ Alive
    /\ signalled' = TRUE
    /\ shutPc' = "exited"
    /\ UNCHANGED <<fsVars, loadVars, watcher, debounceVars, call, fieldVars, resetVars,
                   frameVars, isConnecting, isShuttingDown, initPc, strayResetTimers,
                   refreshInFlight, pendingSends, started, refused>>

----------------------------------------------------------------------------
\* Specifications

\* staging: the bot is started over a plugin directory in which archives lie
InitStaging ==
    /\ InitFields
    /\ pluginDirExists \in BOOLEAN
    /\ dirs \in {d \in InitDirs : d[<<"b", 0>>] \in {"none", "fallback"}}
    /\ zips \in SUBSET ZipNames
    /\ pluginDirExists = FALSE => zips = {} /\ \A n \in DirNames : dirs[n] = "none"

NextStaging ==
    \/ BotStart
    \/ LoadInitReturn

SpecStaging == InitStaging /\ [][NextStaging]_vars

\* the watcher: the bot is started over plugin a, the directory changes, an update of
\* plugin a is dropped, the debounce timer reloads
InitWatch ==
    /\ InitFields
    /\ pluginDirExists = TRUE
    /\ dirs = [n \in DirNames |-> IF n = <<"a", 0>> THEN "chatA" ELSE "none"]
    /\ zips = {}

NextWatch ==
    \/ BotStart
    \/ LoadCleanupReturn
    \/ LoadInitReturn
    \/ DropZip("up.zip")
    \/ \E f \in FileNames : WatchEvent(f)
    \/ Advance
    \/ \E h \in 1 .. MaxTimers : DebounceFire(h)

SpecWatch == InitWatch /\ [][NextWatch]_vars

\* teardown by a reload: as SpecWatch, started over a plugin that is registered
\* more than once
InitTeardown ==
    /\ InitFields
    /\ pluginDirExists = TRUE
    /\ dirs \in {[n \in DirNames |-> IF n = <<"a", 0>> THEN c ELSE "none"] :
                    c \in {"fallback", "chatB"}}
    /\ zips = {}

SpecTeardown == InitTeardown /\ [][NextWatch]_vars

\* drops and removals: as SpecWatch, but plugin a can be moved out of pluginDir and
\* fs.watch reports each dropped archive and each removed directory once (Notify) and
\* nothing else.  Timers fire, awaited hooks return and fs.watch reports what was
\* dropped: the event loop runs every callback that is due.
NextDrop ==
    \/ BotStart
    \/ LoadCleanupReturn
    \/ LoadInitReturn
    \/ DropZip("up.zip")
    \/ RemoveDir(<<"a", 0>>)
    \/ \E f \in FileNames : Notify(f)
    \/ Advance
    \/ \E h \in 1 .. MaxTimers : DebounceFire(h)

SpecDrop ==
    /\ InitWatch
    /\ [][NextDrop]_vars
    /\ WF_vars(BotStart)
    /\ WF_vars(LoadCleanupReturn)
    /\ WF_vars(LoadInitReturn)
    /\ WF_vars(\E f \in FileNames : Notify(f))
    /\ WF_vars(Advance)
    /\ WF_vars(\E h \in 1 .. MaxTimers : DebounceFire(h))

\* one scan: the bot is started over three directories, each with any content
InitScan ==
    /\ InitFields
    /\ pluginDirExists = TRUE
    /\ dirs \in {[n \in DirNames |-> IF n = <<"a", 0>> THEN c1
                                     ELSE IF n = <<"a", 1>> THEN c2
                                     ELSE IF n = <<"b", 0>> THEN c3 ELSE "none"] :
                    c1 \in Content \cup Broken, c2 \in Content \cup Broken,
                    c3 \in Content \cup Broken}
    /\ zips = {}

NextScan ==
    \/ BotStart
    \/ LoadInitReturn

SpecScan == InitScan /\ [][NextScan]_vars

NextDispatch ==
    \/ BotStart
    \/ LoadInitReturn
    \/ \E t \in MsgTypes, b \in MsgBodies, p \in BOOLEAN : Dispatch(t, b, p)
    \/ MainResolves
    \/ MainRejects

SpecDispatch == Init /\ [][NextDispatch]_vars

\* reload: the bot is started over plugin a, an update of plugin a is dropped, the
\* debounce timer reloads, and processMessage is called at any moment

NextReload ==
    \/ BotStart
    \/ LoadCleanupReturn
    \/ LoadInitReturn
    \/ DropZip("up.zip")
    \/ \E f \in FileNames : WatchEvent(f)
    \/ Advance
    \/ \E h \in 1 .. MaxTimers : DebounceFire(h)
    \/ \E t \in MsgTypes : Dispatch(t, <<>>, FALSE)
    \/ MainRejects

SpecReload == InitWatch /\ [][NextReload]_vars

\* shutdown: the bot runs over plugin a, connects, loses its socket, reloads; then
\* shutdown() is called or a termination signal is delivered.  Nothing happens in a
\* process that has exited.
NextShutdown ==
    \/ BotStart
    \/ LoadCleanupReturn
    \/ LoadInitReturn
    \/ \E d \in Delays : ReconnectFire(d)
    \/ InitTokenOk
    \/ InitTokenFail
    \/ InitWsLinkOk
    \/ SocketOpen
    \/ SocketClose
    \/ \E f \in FileNames : WatchEvent(f)
    \/ Advance
    \/ \E h \in 1 .. MaxTimers : DebounceFire(h)
    \/ Shutdown
    \/ ShutdownCleanupReturn
    \/ Signal

SpecShutdown == InitWatch /\ [][NextShutdown]_vars

\* messages: the bot is started over one plugin, its socket opens and frames with
\* message text arrive; handlers answer, replies are requested and answered
InitMessages ==
    /\ InitFields
    /\ pluginDirExists = TRUE
    /\ dirs \in {[n \in DirNames |-> IF n = <<"a", 0>> THEN c ELSE "none"] :
                    c \in {"chatA", "fallback"}}
    /\ zips = {}

\* the frames with message text
MessageFrames == {f \in Frames : f.content # <<>> /\ f.s = 1}

NextMessages ==
    \/ BotStart
    \/ LoadInitReturn
    \/ InitTokenOk
    \/ InitWsLinkOk
    \/ SocketOpen
    \/ \E f \in MessageFrames : SocketMessage(f)
    \/ MainResolves
    \/ MainRejects
    \/ Img2UrlOk
    \/ ReplyAwaitFails
    \/ UploadOk
    \/ SendOk
    \/ SendFail

SpecMessages == InitMessages /\ [][NextMessages]_vars

\* the gateway session over one plugin directory
InitSession ==
    /\ InitFields
    /\ pluginDirExists = TRUE
    /\ dirs = [n \in DirNames |-> IF n = <<"a", 0>> THEN "chatA" ELSE "none"]
    /\ zips = {}

\* the frames that carry no message text
ControlFrames == {f \in Frames : f.content = <<>>}

NextSession ==
    \/ BotStart
    \/ LoadCleanupReturn
    \/ LoadInitReturn
    \/ \E d \in Delays : ReconnectFire(d)
    \/ InitTokenOk
    \/ InitTokenFail
    \/ InitWsLinkOk
    \/ InitWsLinkFail
    \/ SocketOpen
    \/ \E f \in ControlFrames : SocketMessage(f)
    \/ SocketClose
    \/ SocketError
    \/ HeartbeatFire
    \/ TokenRefreshFire
    \/ RefreshOk
    \/ RefreshFail
    \/ PeriodicResetFire
    \/ StrayResetFire

SpecSession == InitSession /\ [][NextSession]_vars

\* the frames that ask for a reconnect: opcode 7 and opcode 9 (lines 1078-1082)
ResetFrames == {f \in Frames : f.op \in {7, 9}}

\* connecting and reconnecting: the attempts, the triggers of a reset, the refresh of
\* the token
NextConnect ==
    \/ BotStart
    \/ LoadCleanupReturn
    \/ LoadInitReturn
    \/ \E d \in Delays : ReconnectFire(d)
    \/ InitTokenOk
    \/ InitTokenFail
    \/ InitWsLinkOk
    \/ InitWsLinkFail
    \/ SocketOpen
    \/ \E f \in ResetFrames : SocketMessage(f)
    \/ SocketClose
    \/ SocketError
    \/ TokenRefreshFire
    \/ RefreshOk
    \/ RefreshFail
    \/ PeriodicResetFire
    \/ StrayResetFire

SpecConnect == InitSession /\ [][NextConnect]_vars

\* the frames of a session's start: Hello (opcode 10) and READY
HeartbeatFrames == {f \in Frames : f.op = 10 \/ f.t = "READY"}

\* sessions and their heartbeat
NextHeartbeat ==
    \/ BotStart
    \/ LoadCleanupReturn
    \/ LoadInitReturn
    \/ \E d \in Delays : ReconnectFire(d)
    \/ InitTokenOk
    \/ InitWsLinkOk
    \/ SocketOpen
    \/ \E f \in HeartbeatFrames : SocketMessage(f)
    \/ SocketClose
    \/ HeartbeatFire

\* an interval of setInterval that is not cleared fires again and again (line 1165)
SpecHeartbeat == InitSession /\ [][NextHeartbeat]_vars /\ WF_vars(HeartbeatFire)

Next ==
    \/ NextStaging
    \/ NextWatch
    \/ \E z \in ZipNames : DropZip(z)
    \/ \E n \in DirNames : RemoveDir(n)
    \/ NextDispatch
    \/ NextSession
    \/ \E f \in Frames : SocketMessage(f)
    \/ Img2UrlOk
    \/ ReplyAwaitFails
    \/ UploadOk
    \/ SendOk
    \/ SendFail
    \/ Shutdown
    \/ ShutdownCleanupReturn
    \/ Signal

Spec == Init /\ [][Next]_vars

----------------------------------------------------------------------------
\* Properties of the gateway session (SpecSession)

\* C1: after every inbound frame the stored sequence number equals the largest
\* sequence number received so far, so it never decreases.
C1_SeqIsMaxSeen == seq = maxS

\* C2: the first socket-open after a ready session closed cleanly sends a resume frame
\* (op 6) with the last captured session id and the stored sequence number plus one.
C2_ResumeAfterCleanClose ==
    (openFrame.op # -1 /\ openFrame.afterCleanClose) =>
        /\ openFrame.op = 6
        /\ openFrame.session_id = openFrame.readySid
        /\ openFrame.seq = openFrame.stored + 1

\* C3: a socket-open while no session id was ever captured sends an identify frame
\* (op 2), never a resume frame.
C3_IdentifyWithoutSession ==
    (openFrame.op # -1 /\ openFrame.readySid = "null") => openFrame.op = 2

----------------------------------------------------------------------------
\* Properties of staging (SpecStaging)

\* C5: an archive whose entries lie under two or more top-level directories is left
\* alone by the scan (nothing extracted, nothing renamed, the archive kept), and the
\* scan still visits every archive it found.
C5_MultiTopArchiveRejected ==
    \A i \in DOMAIN staged :
        LET e == staged[i]
            tops == {x.top : x \in {y \in ZipEntries(e.zip) : y.parts > 1}}
        IN  Cardinality(tops) >= 2 =>
                /\ e.after = e.before
                /\ {staged[j].zip : j \in DOMAIN staged} = staged[1].before.zips

\* C6: for an archive with exactly one top-level directory that exists already, the
\* scan moves the existing directory, content kept, to a timestamp-suffixed name that
\* was free, extracts the archive in its place and deletes the archive.
C6_ExistingDirRenamedAside ==
    \A i \in DOMAIN staged :
        LET e == staged[i]
            tops == {x.top : x \in {y \in ZipEntries(e.zip) : y.parts > 1}}
        IN  \A top \in tops :
                (tops = {top} /\ e.before.dirs[<<top, 0>>] # "none") =>
                    /\ e.stamp \in 1 .. MaxStamp
                    /\ e.before.dirs[<<top, e.stamp>>] \in {"none", "empty"}
                    /\ e.after.dirs[<<top, e.stamp>>] = e.before.dirs[<<top, 0>>]
                    /\ e.after.dirs[<<top, 0>>] \in
                          {x.pkg : x \in {y \in ZipEntries(e.zip) : ~y.isDirectory}}
                    /\ e.zip \notin e.after.zips

----------------------------------------------------------------------------
\* Properties of the watcher (SpecWatch)

\* C7: the relevant notifications of one debounce window lead to exactly one
\* reloadPlugins call: the calls made, plus one while a timer is pending, equal the
\* number of windows opened; and a call is made only when DebounceDelay has passed
\* since the last relevant notification.
C7_OneReloadPerBurst ==
    [][/\ reloadCalls' + (IF Pending(debounceTimers') = {} THEN 0 ELSE 1) = bursts'
       /\ reloadCalls' # reloadCalls => sinceNotify >= DebounceDelay]_vars

\* a window of two or more notifications was answered by the one reload
C7_Witness ==
    /\ bursts = 1
    /\ burstSize >= 2
    /\ reloadCalls = 1
    /\ Pending(debounceTimers) = {}

----------------------------------------------------------------------------
\* Properties of dispatch (SpecDispatch)

\* C4: when the finished load registered two plugins that declare the same type, a
\* processMessage call for that type calls main of the one registered later, once, and
\* init() of both was invoked by that load.
C4_LaterPluginAnswers ==
    [][\A i, j \in DOMAIN registered : \A t \in MsgTypes :
          LET Declares(k) == \E n \in DOMAIN ProcessingTypes(registered[k].pkg) :
                                 ProcessingTypes(registered[k].pkg)[n] = t
          IN  ( /\ started /\ ~isLoading
                /\ i < j /\ Declares(i) /\ Declares(j)
                /\ \A k \in DOMAIN registered : k > j => ~Declares(k)
                /\ call.pc \in {"idle", "done"} /\ call' # call /\ call'.msgType = t )
              => /\ call'.target = registered[j]
                 /\ call'.mains = 1
                 /\ \A k \in {i, j} : HasInit(registered[k].pkg) => registered[k] \in initCalled
      ]_vars

\* chatA then chatB were loaded, both initialised, and chatB answered "chat"
C4_Witness ==
    /\ started /\ ~isLoading
    /\ Len(registered) = 2
    /\ registered[1].pkg = "chatA" /\ registered[2].pkg = "chatB"
    /\ {registered[1], registered[2]} \subseteq initCalled
    /\ call.pc = "done" /\ ~call.duringLoad
    /\ call.msgType = "chat"
    /\ call.target = registered[2]
    /\ call.outcome = "returned"

\* C8: a processMessage call for a type the Map does not hold, while defaultPlugin is
\* set, calls main of defaultPlugin once with the type and the content it was given,
\* and returns what main resolves to.
C8_DefaultAnswersUnmapped ==
    [][/\ ( /\ call.pc \in {"idle", "done"} /\ call' # call
            /\ MapGet(plugins, call'.msgType) = NoPlugin
            /\ defaultPlugin # NoPlugin )
          => /\ call'.target = defaultPlugin
             /\ call'.mains = 1
             /\ call'.mainArgs[1] = call'.msgType
             /\ call'.mainArgs[2] = call'.msgContent
       /\ (call.pc = "main" /\ call.slot = "default" /\ call'.outcome = "returned")
          => /\ call'.result = call'.mainValue
             /\ call'.mains = 1
      ]_vars

\* "ping hi" went to the default plugin and its answer came back
C8_Witness ==
    /\ call.pc = "done"
    /\ call.msgType = "ping" /\ call.msgContent = <<"hi">>
    /\ MapGet(plugins, "ping") = NoPlugin
    /\ call.target = defaultPlugin /\ defaultPlugin.pkg = "fallback"
    /\ call.mainArgs = <<"ping", <<"hi">>, "user", TRUE>>
    /\ call.outcome = "returned" /\ call.result = "hello"

\* C9: when main of the plugin the Map holds for the type throws or rejects,
\* processMessage returns the failure reply, and that step changes neither the Map,
\* nor defaultPlugin, nor the session.
C9_TypeHandlerFailureContained ==
    [][(call' # call /\ call'.slot = "type" /\ call'.outcome \in {"threw", "rejected"})
          => /\ call'.pc = "done"
             /\ call'.result = Failure
             /\ plugins' = plugins
             /\ defaultPlugin' = defaultPlugin
             /\ UNCHANGED <<fieldVars, resetVars, isConnecting, shutVars>>
      ]_vars

\* main of a plugin of the Map rejected and the failure reply came back
C9_Witness ==
    /\ call.pc = "done"
    /\ call.slot = "type"
    /\ call.target = MapGet(plugins, call.msgType)
    /\ call.outcome = "rejected"
    /\ call.result = Failure

\* C10: when main of defaultPlugin throws or rejects, processMessage returns the same
\* failure reply as for a plugin of the Map.
C10_DefaultFailureReply ==
    (call.pc = "done" /\ call.slot = "default" /\ call.outcome \in {"threw", "rejected"})
        => call.result = Failure

----------------------------------------------------------------------------
\* Properties of a reload (SpecReload)

\* C11: every dispatch made once a first load has finished, also one made while a
\* reload is running, sees one complete generation of the registry: the registry as
\* the last finished load left it, or the registry as the running load leaves it
\* when it ends.
C11_DispatchSeesOneGeneration ==
    [][(/\ call.pc \in {"idle", "done"}
        /\ call'.pc \in {"main", "done"}
        /\ call' # call
        /\ generation.loaded)
       => LET seen == [plugins |-> plugins, defaultPlugin |-> defaultPlugin]
          IN  \/ seen = [plugins |-> generation.plugins,
                         defaultPlugin |-> generation.defaultPlugin]
              \/ /\ isLoading
                 /\ seen = FinishLoad(plugins, defaultPlugin, scanQueue, dirs)]_vars

\* C12: whenever a full reload invokes a cleanup hook of the previous generation,
\* the registry is already the new generation, built from the plugin directories
\* as staging left them.
C12_CleanupAfterSwap ==
    (loadPc = "cleanup" /\ teardown.by = "load" /\ teardown.called # <<>>)
    => \E order \in Orders(ExistingDirs(dirs)) :
          [plugins |-> plugins, defaultPlugin |-> defaultPlugin]
              = FinishLoad(<<>>, NoPlugin, order, dirs)

----------------------------------------------------------------------------
\* Properties of shutdown (SpecShutdown)

\* C13: once shutdown has started, no connect attempt is started (no init() call
\* gets past its isConnecting test) and no plugin load begins, whatever timers were
\* pending when it started.
C13_NoConnectAfterShutdown ==
    [][isShuttingDown
       => /\ ~(~isConnecting /\ isConnecting')
          /\ ~(teardown.by = "shutdown" /\ teardown'.by = "load")]_vars

\* C14: when the process has exited on a termination signal, the cleanup hook of
\* every plugin of the registry that has one was invoked by the cleanup() of
\* shutdown.
C14_CleanupBeforeSignalExit ==
    (shutPc = "exited" /\ signalled)
    => LET hooks == CleanupCalls(plugins, defaultPlugin)
       IN  \A i \in DOMAIN hooks :
              /\ teardown.by = "shutdown"
              /\ \E j \in DOMAIN teardown.called : teardown.called[j] = hooks[i]

----------------------------------------------------------------------------
\* Properties of a teardown (SpecReload)

\* C15: when a teardown has ended, the cleanup hook of every plugin that the
\* generation torn down had loaded and that defines one has been invoked, whether
\* the hooks invoked before it returned or threw.
C15_EveryLoadedPluginCleaned ==
    teardown.done
    => \A i \in DOMAIN teardown.loaded :
          HasCleanup(teardown.loaded[i].pkg)
          => \E j \in DOMAIN teardown.called : teardown.called[j] = teardown.loaded[i]

----------------------------------------------------------------------------
\* Properties of message processing (SpecMessages)

\* C16: a frame with message text causes at most one call of a plugin's main, of
\* the plugin of the type or of the default plugin, and at most one reply request.
C16_AtMostOneMainOneReply ==
    call.origin = "msg"
    => /\ call.mains <= 1
       /\ call.replies <= 1
       /\ call.mains = 1 <=> call.slot \in {"type", "default"}
       /\ call.replies = 1 => call.reply.kind \in {"text", "image"}

\* a frame was answered by the default plugin and the reply was requested
C16_Witness ==
    /\ call.origin = "msg"
    /\ call.pc = "done"
    /\ call.slot = "default"
    /\ call.mains = 1
    /\ call.replies = 1

\* C17: a step of the processing of a message (main settles, img2Url or an upload
\* answers or fails, a reply request is answered or fails) leaves the gateway
\* session as it is: the socket, the timers, the pending reconnects, the session id,
\* the sequence number and the resume flag.
C17_ProcessingLeavesSession ==
    [][(\/ pendingSends' < pendingSends
        \/ call.pc \in {"main", "img2url", "upload"} /\ call' # call)
       => UNCHANGED <<ws, wsReady, heartbeatTimer, heartbeatLoops, tokenRefreshTimer, connectionResetTimer,
                      reconnectTimers, session_id, seq, restoreLink>>]_vars

----------------------------------------------------------------------------
\* Properties of dispatch results (SpecDispatch)

\* C18: what processMessage returns when no plugin of the type and no default
\* plugin exists differs from every value a plugin's main can return, the empty
\* replies (null, the empty string) included.
C18_NoHandlerDistinct ==
    (call.pc = "done" /\ call.slot = "none")
    => \A v \in HandlerResults : call.result # v

----------------------------------------------------------------------------
\* Properties of parsing and replying (SpecMessages)

\* C19: as stated, the command type is the first run of non-whitespace characters
\* of the text and the command body is everything after the whitespace run that
\* follows it; a text without a non-whitespace character calls no handler and
\* sends no reply.
C19_BodyIsEverythingAfter ==
    call.origin = "msg"
    => LET t == IF call.text # <<>> /\ IsSpace(Head(call.text))
                THEN Tail(call.text) ELSE call.text
       IN  IF t = <<>>
           THEN call.mains = 0 /\ call.replies = 0
           ELSE /\ call.msgType = Head(t)
                /\ call.msgContent = SubSeq(t, 3, Len(t))

\* C19, amended: the command type is the first run of non-whitespace characters
\* and the command body is the text after the whitespace run that follows it,
\* without the whitespace the text ends with; a text without a non-whitespace
\* character calls no handler and sends no reply.
C19_BodyIsTrimmedRest ==
    call.origin = "msg"
    => LET t == IF call.text # <<>> /\ IsSpace(Head(call.text))
                THEN Tail(call.text) ELSE call.text
           rest == SubSeq(t, 3, Len(t))
       IN  IF t = <<>>
           THEN call.mains = 0 /\ call.replies = 0
           ELSE /\ call.msgType = Head(t)
                /\ call.msgContent = IF rest # <<>> /\ IsSpace(rest[Len(rest)])
                                      THEN SubSeq(rest, 1, Len(rest) - 1)
                                      ELSE rest

\* a text with whitespace before the type and after the body was parsed and answered
C19_Witness ==
    /\ call.origin = "msg"
    /\ call.text = <<" ", "ping", " ", "hi", " ">>
    /\ call.msgType = "ping"
    /\ call.msgContent = <<"hi">>
    /\ call.mains = 1

----------------------------------------------------------------------------
\* C21: a reset leaves no timer of the session it ends: after it, the only pending
\* reconnect is the one it scheduled itself, and no periodic-reset timer is pending
\* that the field connectionResetTimer does not hold.  Every reconnect timer is
\* created by a reset, so two pending ones mean that the later reset left the
\* earlier one armed.
C21_ResetCancelsEveryTimer ==
    /\ Total(reconnectTimers) <= 1
    /\ strayResetTimers = 0

----------------------------------------------------------------------------
\* C22: a loadPlugins call made while a load is running (isLoading) stages nothing,
\* calls no cleanup and no init hook and leaves the registry and the running load as
\* they are; and a load goes under construction only in the step of a call that
\* found none running, so the refused call is not run later.  The calls are those of
\* reloadPlugins (reloadCalls counts them) and of an init that passed line 957.
C22_SecondLoadIsSkipped ==
    [][LET request == reloadCalls' # reloadCalls \/ (~isConnecting /\ isConnecting')
       IN  /\ (isLoading /\ request) => UNCHANGED <<fsVars, loadVars>>
           /\ (~isLoading /\ isLoading') => request]_vars

\* an init has called loadPlugins while the load of a reload was awaiting a hook: the
\* call was refused, the init went on, and the load of the reload is still running
C22_Witness ==
    /\ refused.load
    /\ isLoading
    /\ loadCaller = "watch"
    /\ isConnecting

----------------------------------------------------------------------------
\* C23: an init() called while an attempt is running (isConnecting) does nothing: no
\* token is requested, no socket is opened or replaced, no plugin load is started and
\* no timer is armed, and the running attempt stays where it is; an attempt starts
\* only when none is running.  The calls of init besides the first are those of the
\* reconnect timers.
C23_SecondInitIsNoOp ==
    [][/\ (isConnecting /\ Total(reconnectTimers') < Total(reconnectTimers))
            => UNCHANGED <<isConnecting, initPc, accessToken, refreshInFlight, ws, wsReady,
                           heartbeatTimer, heartbeatLoops, tokenRefreshTimer, connectionResetTimer,
                           strayResetTimers, fsVars, loadVars, watcher>>
       /\ (initPc = "idle" /\ initPc' # "idle") => ~isConnecting]_vars

\* a reconnect timer has fired while an attempt was awaiting the gateway endpoint, and
\* that attempt is still awaiting it
C23_Witness ==
    /\ refused.init
    /\ isConnecting
    /\ initPc = "wslink"

----------------------------------------------------------------------------
\* C24: the stored session id is that of the last READY; while the socket on which
\* READY arrived is the bot's socket, a heartbeat frame has been sent and exactly one
\* heartbeat loop runs, held by heartbeatTimer, so a second READY replaces the loop;
\* no loop outlives a reset; and after the immediate frame of READY (d: null) the loop
\* sends a frame (d: seq) unless the session ends first.
C24_OneHeartbeatLoop ==
    /\ [](session_id = lastReadySid)
    /\ [](wsReady => hbFrame.sent /\ heartbeatTimer = "armed" /\ heartbeatLoops = 1)
    /\ [](heartbeatLoops <= 1)
    /\ [](ws = "null" => heartbeatLoops = 0)
    /\ ((wsReady /\ hbFrame.d = -1) ~> (hbFrame.d # -1 \/ ~wsReady))

\* two READY frames have arrived on the first socket (s = 2, then s = 1) and the
\* frame sent last is the immediate heartbeat of the second
C24_Witness ==
    /\ wsReady
    /\ openFrame.readySid = "null"
    /\ maxS = 2
    /\ lastS = 1
    /\ session_id = "s2"
    /\ hbFrame = [sent |-> TRUE, d |-> -1]
    /\ heartbeatLoops = 1

----------------------------------------------------------------------------
\* C25: a heartbeat frame carries the sequence number received last before it is
\* sent (the frame being handled included), and null (-1) exactly when no frame with
\* a sequence number has been received.
C25_HeartbeatCarriesLastSeq ==
    [][hbFrame' # hbFrame => hbFrame'.d = IF lastS' = 0 THEN -1 ELSE lastS']_vars

----------------------------------------------------------------------------
\* C26: a socket close, a socket error, a frame with opcode 7 or 9 and the periodic
\* timer each run the reset procedure (the three timers cancelled, the socket
\* dropped) and schedule exactly one reconnect, 3000 ms after a close, 5000 ms after
\* an error and 0 ms after the opcodes and the periodic timer; and the reconnect, when
\* its timer fires, requests resume (restoreLink).
C26_TriggersResetAndReconnect ==
    [][LET reset == /\ heartbeatTimer' = "null"
                    /\ heartbeatLoops' = 0
                    /\ tokenRefreshTimer' = "null"
                    /\ connectionResetTimer' = "null"
                    /\ ws' = "null"
           one(d) == reconnectTimers' = [reconnectTimers EXCEPT ![d] = @ + 1]
       IN  /\ SocketClose => reset /\ one(3000)
           /\ SocketError => reset /\ one(5000)
           /\ (\E f \in ResetFrames : SocketMessage(f)) => reset /\ one(0)
           /\ PeriodicResetFire => reset /\ one(0)
           /\ Total(reconnectTimers') < Total(reconnectTimers) => restoreLink']_vars

\* a session that was itself resumed has closed: its reset has run and the one
\* reconnect pending is the one of the close
C26_Witness ==
    /\ openFrame.op = 6
    /\ ~restoreLink
    /\ ws = "null"
    /\ reconnectTimers = [d \in Delays |-> IF d = 3000 THEN 1 ELSE 0]
    /\ heartbeatTimer = "null"
    /\ tokenRefreshTimer = "null"
    /\ connectionResetTimer = "null"

----------------------------------------------------------------------------
\* C27: when the token request or the endpoint request of a connect attempt fails,
\* the attempt ends with no socket held, exactly one more reconnect timer pending,
\* with delay 5000, and the process running; and the process never exits while
\* connecting and reconnecting.
C27_FailedAttemptRetries ==
    /\ [][(InitTokenFail \/ InitWsLinkFail)
            => /\ ws' = "null"
               /\ reconnectTimers' = [reconnectTimers EXCEPT ![5000] = @ + 1]
               /\ ~isConnecting'
               /\ shutPc' # "exited"]_vars
    /\ [](shutPc # "exited")

\* the bot never got a token: the attempt has ended, no socket exists and the one
\* timer pending is the retry in 5000 ms
C27_Witness ==
    /\ started
    /\ accessToken = "null"
    /\ ~isConnecting
    /\ ws = "null"
    /\ reconnectTimers = [d \in Delays |-> IF d = 5000 THEN 1 ELSE 0]

----------------------------------------------------------------------------
\* C28: the bot never holds a socket with no renewal of the token to come: while
\* this.ws is set, the refresh timer is armed, or a refresh request is in flight, or
\* a connect attempt is running or a reconnect is pending (each attempt requests a
\* token and arms the timer).
C28_RenewalAlwaysScheduled ==
    ws # "null" =>
        \/ tokenRefreshTimer = "armed"
        \/ refreshInFlight > 0
        \/ isConnecting
        \/ Total(reconnectTimers) > 0

----------------------------------------------------------------------------
\* C29: in every reachable state, cleanupResources run twice leaves what it leaves
\* when run once: the three timer fields null with no heartbeat loop running, the
\* socket dropped; neither run throws, and close() is called exactly when the socket
\* is open.  Every reset leaves the resources as the procedure computes them, and in
\* a state a second run would not change.
C29_CleanupIdempotent ==
    /\ [](LET once == Cleaned(Resources)
          IN  /\ Cleaned(once) = once
              /\ once = [heartbeatTimer |-> "null", heartbeatLoops |-> 0,
                         tokenRefreshTimer |-> "null", connectionResetTimer |-> "null",
                         ws |-> "null", wsReady |-> FALSE]
              /\ ~CleanupThrows(Resources)
              /\ ~CleanupThrows(once)
              /\ CloseCalled(Resources) <=> ws = "open"
              /\ ~CloseCalled(once))
    /\ [][(ws # "null" /\ ws' = "null")
            => Resources' = Cleaned(Resources) /\ Cleaned(Resources') = Resources']_vars

\* a reset has run on a session that was ready and sending heartbeats: everything
\* is cleared and its reconnect is pending
C29_Witness ==
    /\ cleanClosed
    /\ hbFrame.sent
    /\ Resources = Cleaned(Resources)
    /\ ws = "null"
    /\ Total(reconnectTimers) = 1

----------------------------------------------------------------------------
\* C30: when a load has ended, every directory that holds a plugin with a callable
\* main is registered, and its init hook, if it has one, was invoked, whatever the
\* other directories of the scan hold (no manifest, an unreadable manifest, a module
\* that does not resolve, an export without main, an init hook that threw); and a
\* directory without a loadable plugin with main is never registered, neither in the
\* Map nor as default plugin.
C30_BadDirectoryIsolated ==
    /\ (started /\ ~isLoading) =>
          \A n \in DirNames :
             HasMain(dirs[n]) =>
                /\ \E i \in DOMAIN registered : registered[i] = PluginObj(n, dirs[n])
                /\ HasInit(dirs[n]) => PluginObj(n, dirs[n]) \in initCalled
    /\ \A n \in DirNames :
          ~HasMain(dirs[n]) =>
             /\ \A i \in DOMAIN plugins : plugins[i].plugin.dir # n
             /\ defaultPlugin.dir # n
             /\ \A i \in DOMAIN registered : registered[i].dir # n

\* a scan over a directory with an unreadable manifest, a plugin without main and a
\* plugin with main and init has ended: the last one is registered and initialised
C30_Witness ==
    /\ started
    /\ ~isLoading
    /\ dirs[<<"a", 0>>] = "badjson"
    /\ dirs[<<"a", 1>>] = "nomain"
    /\ dirs[<<"b", 0>>] = "chatB"
    /\ registered = <<PluginObj(<<"b", 0>>, "chatB")>>
    /\ initCalled = {PluginObj(<<"b", 0>>, "chatB")}
    /\ MapGet(plugins, "ping") = PluginObj(<<"b", 0>>, "chatB")

----------------------------------------------------------------------------
\* C31: when a load has ended that staged an archive over an existing directory
\* (the directory was renamed aside and the archive extracted in its place, and the
\* extracted plugin is still there and has a main), no type the archive's plugin
\* declares is answered by the renamed-aside copy: neither an entry of the Map nor
\* the default slot holds the plugin of the backup directory for such a type.
C31_NewBundleAnswers ==
    (started /\ ~isLoading) =>
        \A i \in DOMAIN staged :
            LET e == staged[i]
                tops == TopLevelDirs(e.zip)
            IN  \A top \in tops :
                    LET new == <<top, 0>>
                        backup == <<top, e.stamp>>
                    IN  (/\ tops = {top}
                         /\ e.before.dirs[new] # "none"
                         /\ e.after # e.before
                         /\ dirs[new] = e.after.dirs[new]
                         /\ HasMain(dirs[new]))
                        => \A j \in DOMAIN ProcessingTypes(dirs[new]) :
                              LET t == ProcessingTypes(dirs[new])[j]
                              IN  IF t = "default" THEN defaultPlugin.dir # backup
                                  ELSE MapGet(plugins, t).dir # backup


\* the bounds of the model, not the program, keep a due reload from running
ReloadCapped ==
    /\ Pending(debounceTimers) # {}
    /\ reloadCalls = MaxReloads \/ now >= MaxStamp

Answers(d) ==
    \/ defaultPlugin.dir = d
    \/ \E i \in DOMAIN plugins : plugins[i].plugin.dir = d

C34_MainAfterInit ==
    [][(/\ call.pc \in {"idle", "done"}
        /\ call' # call
        /\ call'.slot # "none"
        /\ generation.loaded
        /\ HasInit(call'.target.pkg))
       => ~(isLoading /\ loadPc = "init" /\ awaitInit = call'.target)]_vars

\* C35: whenever a dispatch invokes main of a plugin while a load is tearing down the
\* generation the plugin belongs to, the cleanup hook of that plugin has not been
\* called by that teardown.
C35_NoMainAfterCleanup ==
    [][(/\ call.pc \in {"idle", "done"}
        /\ call' # call
        /\ call'.slot # "none"
        /\ isLoading /\ loadPc = "cleanup" /\ teardown.by = "load")
       => \A i \in DOMAIN teardown.called : teardown.called[i] # call'.target]_vars

\* C36: in one teardown no plugin has its cleanup hook invoked twice.
C36_CleanupHookOnce ==
    \A i, j \in DOMAIN teardown.called :
        i # j => teardown.called[i] # teardown.called[j]

\* C37: the reconnect that follows the reset of a close, of an opcode 7 or 9 or of
\* the periodic timer (its timer of 3000 or 0 ms fires and init is called) leaves the
\* plugin registry as it is: it starts no teardown and no load, calls no cleanup and
\* no init hook, and changes neither the type map nor the default slot.
C37_ReconnectKeepsRegistry ==
    [][(\E d \in {0, 3000} : ReconnectFire(d))
       => UNCHANGED <<plugins, defaultPlugin, teardown, initCalled, registered,
                      isLoading>>]_vars

\* C38: while the bot runs, has not begun to shut down and holds no socket, a connect
\* attempt is in progress or a reconnect timer is pending.
C38_NeverIdleDisconnected ==
    (started /\ Alive /\ ~isShuttingDown /\ ws = "null")
        => (isConnecting \/ Total(reconnectTimers) > 0)

\* a reconnect timer fired while an attempt was running and its init call was
\* refused; no socket is held and no other reconnect is pending: the running attempt
\* is what will connect
C38_Witness ==
    /\ started /\ Alive /\ ~isShuttingDown
    /\ refused.init
    /\ ws = "null"
    /\ Total(reconnectTimers) = 0
    /\ isConnecting

\* the periodic-reset timers pending: the one connectionResetTimer holds and those it
\* no longer holds
PeriodicTimers == (IF connectionResetTimer # "null" THEN 1 ELSE 0) + strayResetTimers

\* C39: a connect attempt never opens a socket while the bot holds one (an attempt
\* started by a second reconnect does not replace the session the first one
\* established), and at no time is more than one reconnect pending or more than one
\* periodic-reset timer armed.
C39_OneReconnectOneSession ==
    /\ [][InitWsLinkOk => ws = "null"]_vars
    /\ [](Total(reconnectTimers) <= 1 /\ PeriodicTimers <= 1)

\* C40: whenever the interval of a heartbeat loop fires, the bot's socket is open and
\* is the socket on which the READY that started the loop arrived.
C40_HeartbeatOnItsSocket ==
    [][HeartbeatFire => (ws = "open" /\ wsReady)]_vars
====
